---- MODULE Spec2Model ----
(***************************************************************************)
(* Verification model of magi-assistant-discord: the per-speaker track     *)
(* recorder and its Ogg muxer, the speech-burst tracker, the resampler     *)
(* process registry and the VAD-gated STT stream manager.                  *)
(*                                                                         *)
(* Spec       : one recording session driven through the session manager's *)
(*              handlers (start, join, leave, consent, resync, stop) with  *)
(*              config.stt.enabled = false.                                *)
(* SpecMux    : one OggMuxer constructed and fed frames of the lengths     *)
(*              that matter.                                               *)
(* SpecRegistry: the ProcessRegistry under spawn/kill/get calls and the    *)
(*              resamplers' 'exit', stdin 'error' and 'close' events, with *)
(*              a clock.                                                   *)
(* SpecGate   : one VadGate under speaking events, its timers, stream      *)
(*              errors and destroy, with a clock.                          *)
(* SpecGateApi: the same gate with its two speaking methods called in any  *)
(*              order.                                                     *)
(* SpecTranscript: the gate with the transcript results of its streams.    *)
(* SpecDb     : the transcript_segments table and the tables its foreign   *)
(*              keys refer to, under insertTranscriptSegment, /consent     *)
(*              forget and the retention purge.                            *)
(* SpecStt    : the SttProcessor and the registry for one speaker under    *)
(*              their public methods, speaking events, resampler deaths.   *)
(* SpecSttCap : the SttProcessor with every user competing for its gates.  *)
(* SpecResampler: one FfmpegResampler: writes, backpressure, kill, its     *)
(*              watchdog and SIGKILL timers, the process's events.         *)
(* SpecEngines: the reference-counted STT engine cache.                    *)
(* SpecBoot   : the sessions and audio_tracks tables across starts of the  *)
(*              process, crashes and startup recovery.                     *)
(* SpecHydration: the hydrate-audio script placing one track's bursts on   *)
(*              the session timeline.                                      *)
(* SpecScenario: one speaker joins, speaks, pauses, speaks again and       *)
(*              leaves a session with STT enabled, through the handlers.   *)
(* SpecStart  : startSession calls of two guilds interleaving at their     *)
(*              await points.                                              *)
(* SpecStop   : stopSession, forceEndSession and shutdownAllSessions on    *)
(*              sessions sharing an STT engine, interleaving at theirs.    *)
(* SpecUsage  : the gate's speechDuration events against the time its user *)
(*              has been speaking.                                         *)
(***************************************************************************)
EXTENDS Integers, Sequences, FiniteSets, TLC

\* ---------------------------------------------------------------- bounds
Users == {"u1", "u2"}

\* Opus packets: sequences of bytes.  The first byte is the Opus TOC byte
\* (0xF8: CELT 20 ms, 0x80: CELT 2.5 ms).
Chunks == { <<>>, <<248>>, <<128, 7>> }

\* the session under its handlers: rows of audio_tracks and of participants,
\* stopSession calls, and the time covered
MaxSessionTracks == 2
MaxParticipants == 1
MaxStopCalls == 1
MaxSessionMs == 60000
\* entersState(connection, VoiceConnectionStatus.Ready, 15_000)
ENTER_TIMEOUT_MS == 15000
MaxJitterMs == 1
\* /consent interactions between their reply and their next step
MaxPending == 1

NoTrack == 0
NoBurst == 0
NullOffset == -1

Max(a, b) == IF a >= b THEN a ELSE b

\* ------------------------------------------------------------- variables
VARIABLES
  recorder,       \* SessionRecorder: tracks map, the audio_tracks rows with the
                  \* track objects made for them, the output files
  tracker,        \* BurstTracker: bursts map, burst rows, timers, destroyed
  session,        \* the guild's entry in activeSessions with its sessions and
                  \* participants rows, the voice channel's members, the
                  \* consent records and the handlers in flight
  mux,            \* a stand-alone OggMuxer with its output sink
  muxed,          \* the frames a caller set out to mux with it
  registry,       \* ProcessRegistry: resamplers, spawnFailures, earlyExitListeners,
                  \* the FfmpegResampler objects and the failure arrays they share
  regLog,         \* what the registry did: early exits recorded, last spawn result,
                  \* child processes still running, resamplers sent SIGTERM
  gate,           \* one VadGate with the SttStreams it created and its timers
  gateEnv,        \* whether the gate's user is speaking, and what the last
                  \* rotation check found
  transcriptSegments,       \* the transcript_segments table: rows and id counter,
                  \* with the sessions, audio_tracks and audio_speech_bursts
                  \* rows its foreign keys refer to
  processor,      \* SttProcessor: destroyed, the gates map and every VadGate made
  ffmpeg,         \* one FfmpegResampler with its child process and stdin pipe
  engines,        \* engine-factory: the engines map and every engine created
  hydration,      \* hydrate-audio: one track's burst rows and what hydrateTrack
                  \* wrote for them
  boot,           \* the process (where main() stands) and the database file:
                  \* the sessions and audio_tracks tables
  scenario,       \* where the end-to-end scenario of one speaker stands, and
                  \* what it noted at the start and the end of the pause
  starts,         \* session-manager: startLocks, activeSessions, the sessions
                  \* table and the startSession calls in flight
  stops,          \* session-manager: activeSessions, the ActiveSession
                  \* objects made so far, the engines they share and the
                  \* teardown calls in flight
  usage,          \* the speechDuration values the gate has emitted, against the
                  \* time its user has been speaking
  now             \* Date.now(), in milliseconds

sessionVars == <<recorder, tracker, session>>
muxVars == <<mux, muxed>>
regVars == <<registry, regLog>>
gateVars == <<gate, gateEnv>>
dbVars == <<transcriptSegments>>
procVars == <<processor>>
finalVars == <<scenario, starts, stops, usage>>
lateVars == <<ffmpeg, engines, boot, hydration, finalVars>>
otherVars == <<dbVars, procVars, lateVars>>
vars == <<sessionVars, muxVars, regVars, gateVars, otherVars, now>>

\* what the session's handlers and the recorder/tracker methods leave alone
nonSessionVars == <<muxVars, regVars, gateVars, otherVars, now>>
\* what the stand-alone muxer's methods leave alone
nonMuxVars == <<sessionVars, regVars, gateVars, otherVars, now>>
\* what the registry's methods leave alone
nonRegVars == <<sessionVars, muxVars, gateVars, otherVars, now>>
\* what the gate's handlers leave alone
nonGateVars == <<sessionVars, muxVars, regVars, otherVars, now>>
\* what the transcript table's queries leave alone
nonDbVars == <<sessionVars, muxVars, regVars, gateVars, procVars, lateVars, now>>
\* what the STT orchestrator and the registry leave alone
nonSttVars == <<sessionVars, muxVars, gateVars, dbVars, lateVars, now>>
\* what one resampler's methods and events leave alone
earlyVars == <<sessionVars, muxVars, regVars, gateVars, dbVars, procVars, finalVars>>
besideResampler == <<earlyVars, engines, boot, hydration>>
nonResamplerVars == <<besideResampler, now>>
\* what the engine factory leaves alone
nonEngineVars == <<earlyVars, ffmpeg, boot, hydration, now>>
\* what the start-up sequence and the session rows leave alone
nonBootVars == <<earlyVars, ffmpeg, engines, hydration, now>>
\* what the hydration script leaves alone
nonHydrationVars == <<earlyVars, ffmpeg, engines, boot, now>>
\* what startSession leaves alone
nonStartVars == <<sessionVars, muxVars, regVars, gateVars, dbVars, procVars,
                  ffmpeg, engines, boot, hydration, scenario, stops, usage, now>>
\* what the teardown of a session leaves alone
nonStopVars == <<sessionVars, muxVars, regVars, gateVars, dbVars, procVars,
                 ffmpeg, engines, boot, hydration, scenario, starts, usage, now>>
\* what the gate's speech accounting leaves alone
nonUsageVars == <<sessionVars, muxVars, regVars, dbVars, procVars,
                  ffmpeg, engines, boot, hydration, scenario, starts, stops, now>>

\* ------------------------------------------------------------ Ogg muxer
\* The segment-table loop of writePage: one lacing value per segment.
RECURSIVE SegmentLoop(_, _, _, _)
SegmentLoop(i, segments, remaining, table) ==
  IF i >= segments THEN table
  ELSE IF remaining >= 255
       THEN SegmentLoop(i + 1, segments, remaining - 255, Append(table, 255))
       ELSE SegmentLoop(i + 1, segments, 0, Append(table, remaining))

\* Math.max(1, Math.ceil(data.length / 255))
SegmentCount(len) == Max(1, (len + 254) \div 255)

\* writePage: the page appended to the sink and the sequence number bumped.
writePage(m, data, headerType, granulePos) ==
  LET segments == SegmentCount(Len(data))
      page == [headerType |-> headerType,
               granulePos |-> granulePos,
               pageSeqNo |-> m.pageSeqNo,
               segments |-> segments,
               segmentTable |-> SegmentLoop(0, segments, Len(data), <<>>),
               data |-> data]
  IN [m EXCEPT !.pageSeqNo = m.pageSeqNo + 1,
               !.output = Append(m.output, page)]

samplesPerFrame == 960

\* Buffer.from('magi-assistant-discord', 'utf-8').length
VendorLength == 22

\* The 19-byte OpusHead packet (contents abstracted to their length; only the
\* length reaches the segment table).
OpusHead == [i \in 1..19 |-> 0]

\* buf.writeUInt32LE(value, offset) on a buffer of the given length throws a
\* RangeError unless the four bytes fit
writeUInt32LEThrows(length, offset) == offset + 4 > length

\* the fields of an OggMuxer before its constructor has written anything;
\* threw: the constructor ended in an exception and no object was returned
NoMuxer ==
  [pageSeqNo |-> 0, granulePos |-> 0, finalized |-> FALSE, output |-> <<>>,
   threw |-> FALSE]

writeIdHeader(m) == writePage(m, OpusHead, 2, 0)

\* writeCommentHeader: Buffer.alloc(8 + vendorBuf.length + 4), then the
\* vendor length at offset 8, the vendor at 12 and the comment count at
\* 12 + vendorBuf.length
writeCommentHeader(m) ==
  LET length == 8 + VendorLength + 4
      comment == [i \in 1..length |-> 0]
  IN IF writeUInt32LEThrows(length, 8) \/ writeUInt32LEThrows(length, 12 + VendorLength)
     THEN [m EXCEPT !.threw = TRUE]
     ELSE writePage(m, comment, 0, 0)

\* new OggMuxer(output): the sink and the fields when the constructor ends
NewOggMuxer == writeCommentHeader(writeIdHeader(NoMuxer))

writeOpusPacket(m, opusData) ==
  IF m.finalized THEN m
  ELSE writePage([m EXCEPT !.granulePos = m.granulePos + samplesPerFrame],
                 opusData, 0, m.granulePos + samplesPerFrame)

finalize(m) ==
  IF m.finalized THEN m
  ELSE writePage([m EXCEPT !.finalized = TRUE], <<>>, 4, m.granulePos)

\* ------------------------------------------------------------- recorder
\* getTrack(userId): the user's track if active, else NoTrack
getTrack(r, userId) ==
  IF r.tracks[userId] # NoTrack /\ ~r.audioTracks[r.tracks[userId]].closed
  THEN r.tracks[userId] ELSE NoTrack

\* SELECT COUNT(*) FROM audio_tracks WHERE session_id = ? AND user_id = ?
getTrackCountForUser(r, userId) ==
  Cardinality({t \in 1..Len(r.audioTracks) :
                 r.audioTracks[t].userId = userId /\ ~r.audioTracks[t].deleted})

\* The audio_tracks row that subscribeUser inserts, with the fields of the
\* UserTrack object made for it when the muxer could be constructed.
NewTrack(r, userId) ==
  [userId |-> userId,
   trackNumber |-> getTrackCountForUser(r, userId),
   frameCount |-> 0,
   firstPacketRecorded |-> FALSE,
   closed |-> FALSE,
   first_packet_at |-> 0,      \* number of setFirstPacketAt calls
   ended_at |-> 0,             \* number of endAudioTrack calls
   writeStreamEnded |-> FALSE,
   deleted |-> FALSE]          \* the row was deleted and the file unlinked

\* subscribeUser(userId) ends in the exception of new OggMuxer
subscribeUserThrows(r, userId) ==
  /\ ~(r.tracks[userId] # NoTrack /\ ~r.audioTracks[r.tracks[userId]].closed)
  /\ NewOggMuxer.threw

\* subscribeUser(userId): insertAudioTrack, the output file with what the
\* muxer's constructor wrote to it, and, when the constructor returned, the
\* track in the tracks map
subscribeUser(r, userId) ==
  IF r.tracks[userId] # NoTrack /\ ~r.audioTracks[r.tracks[userId]].closed
  THEN r
  ELSE [r EXCEPT !.audioTracks = Append(@, NewTrack(r, userId)),
                 !.muxers = Append(@, NewOggMuxer),
                 !.tracks[userId] = IF NewOggMuxer.threw THEN @
                                    ELSE Len(r.audioTracks) + 1]

\* closeUserTrack(userId)
closeUserTrack(r, userId) ==
  LET t == r.tracks[userId] IN
  IF t = NoTrack \/ r.audioTracks[t].closed
  THEN r
  ELSE [r EXCEPT !.audioTracks[t].closed = TRUE,
                 !.audioTracks[t].writeStreamEnded = TRUE,
                 !.audioTracks[t].ended_at = @ + 1,
                 !.muxers[t] = finalize(@),
                 !.tracks[userId] = NoTrack]

\* closeAll(): closeUserTrack for every key of the tracks map
RECURSIVE recorderCloseLoop(_, _)
recorderCloseLoop(r, userIds) ==
  IF userIds = {} THEN r
  ELSE LET u == CHOOSE x \in userIds : TRUE
       IN recorderCloseLoop(closeUserTrack(r, u), userIds \ {u})

recorderCloseAll(r) ==
  recorderCloseLoop(r, {u \in Users : r.tracks[u] # NoTrack})

\* --------------------------------------------------------- burst tracker
\* No UserBurstState in the bursts map for a user.
NoState == [burstId |-> NoBurst, checkTimer |-> 0]

\* insertBurst throws: the track's audio_tracks row was deleted (the foreign
\* key of track_id), or the track has a row with burst_end NULL (the unique
\* index idx_audio_speech_bursts_one_open)
insertBurstThrows(bt, r, track) ==
  \/ r.audioTracks[track].deleted
  \/ \E b \in 1..Len(bt.burstRows) :
        /\ bt.burstRows[b].trackId = track
        /\ ~bt.burstRows[b].burst_end /\ ~bt.burstRows[b].deleted

\* openBurst(userId, track): insertBurst, arm the max-duration timeout; when
\* insertBurst throws, openBurst has done nothing yet
openBurst(bt, r, userId, track) ==
  LET burstId == Len(bt.burstRows) + 1
      row == [trackId |-> track,
              startFrameOffset |-> r.audioTracks[track].frameCount,
              endFrameOffset |-> NullOffset,
              burst_end |-> FALSE,
              deleted |-> FALSE]
  IN IF insertBurstThrows(bt, r, track) THEN bt
     ELSE [bt EXCEPT !.burstRows = Append(@, row),
                     !.bursts[userId] = [burstId |-> burstId, checkTimer |-> burstId],
                     !.timers = @ \cup {[id |-> burstId, userId |-> userId]},
                     !.forceClosed = {}]

\* closeBurstState(userId, state, endFrameOffset): clearTimeout, closeBurst,
\* delete; the UPDATE of closeBurst changes no row when the burst's row was
\* deleted
closeBurstState(bt, userId, state, endFrameOffset) ==
  [bt EXCEPT !.timers = IF state.checkTimer # 0
                        THEN {tm \in @ : tm.id # state.checkTimer} ELSE @,
             !.burstRows[state.burstId] =
                 IF @.deleted THEN @
                 ELSE [@ EXCEPT !.burst_end = TRUE,
                                !.endFrameOffset = endFrameOffset],
             !.bursts[userId] = NoState,
             !.forceClosed = {}]

\* const frameOffset = track ? track.frameCount : 0
frameOffsetOf(r, userId) ==
  IF getTrack(r, userId) # NoTrack
  THEN r.audioTracks[getTrack(r, userId)].frameCount ELSE 0

\* onSpeakingStart(userId); the exception of openBurst passes through it
onSpeakingStart(bt, r, userId) ==
  IF bt.bursts[userId] # NoState THEN bt
  ELSE IF getTrack(r, userId) = NoTrack THEN bt
  ELSE openBurst(bt, r, userId, getTrack(r, userId))

onSpeakingStartThrows(bt, r, userId) ==
  /\ bt.bursts[userId] = NoState
  /\ getTrack(r, userId) # NoTrack
  /\ insertBurstThrows(bt, r, getTrack(r, userId))

onSpeakingEnd(bt, r, userId) ==
  IF bt.bursts[userId] = NoState THEN bt
  ELSE closeBurstState(bt, userId, bt.bursts[userId], frameOffsetOf(r, userId))

\* maxDurationGuard(userId); forceClosed is the burst its warning names, kept
\* until the tracker opens or closes a burst on another path.  When the
\* insertBurst of the reopening throws, the old burst is closed and none is
\* open; the exception leaves the timer callback.
maxDurationGuard(bt, r, userId) ==
  IF bt.destroyed THEN bt
  ELSE IF bt.bursts[userId] = NoState THEN bt
  ELSE LET closedBt == closeBurstState(bt, userId, bt.bursts[userId],
                                       frameOffsetOf(r, userId))
           reopened == IF getTrack(r, userId) # NoTrack
                       THEN openBurst(closedBt, r, userId, getTrack(r, userId))
                       ELSE closedBt
       IN [reopened EXCEPT !.forceClosed = {bt.bursts[userId].burstId}]

maxDurationGuardThrows(bt, r, userId) ==
  /\ ~bt.destroyed /\ bt.bursts[userId] # NoState
  /\ getTrack(r, userId) # NoTrack
  /\ insertBurstThrows(closeBurstState(bt, userId, bt.bursts[userId],
                                       frameOffsetOf(r, userId)),
                       r, getTrack(r, userId))

\* closeUserBurst(userId)
closeUserBurst(bt, r, userId) ==
  IF bt.bursts[userId] = NoState THEN bt
  ELSE closeBurstState(bt, userId, bt.bursts[userId], frameOffsetOf(r, userId))

\* closeAll(): close the burst of every entry of the bursts map
RECURSIVE burstCloseLoop(_, _, _)
burstCloseLoop(bt, r, userIds) ==
  IF userIds = {} THEN bt
  ELSE LET u == CHOOSE x \in userIds : TRUE
       IN burstCloseLoop(
            closeBurstState(bt, u, bt.bursts[u], frameOffsetOf(r, u)),
            r, userIds \ {u})

burstCloseAll(bt, r) ==
  burstCloseLoop(bt, r, {u \in Users : bt.bursts[u] # NoState})

\* The listeners another component (the session's STT wiring) keeps on the
\* same receiver.speaking emitter.
OtherListeners == {"sttOnStart", "sttOnEnd"}

\* destroy(): set destroyed, closeAll, remove the tracker's own listeners
burstDestroy(bt, r) ==
  [burstCloseAll([bt EXCEPT !.destroyed = TRUE], r) EXCEPT !.listening = FALSE]

\* receiver.speaking.emit(event, userId) reaches every listener registered
\* for the event; heard records a delivery to another component's listener
\* once the tracker is destroyed.
heardByOthers(bt, listener) ==
  [bt EXCEPT !.otherHeard = @ \/ (listener \in bt.others /\ bt.destroyed)]

\* ---------------------------------------------------- process registry
BREAKER_WINDOW_MS == 60000
BREAKER_MAX_FAILURES == 3
EARLY_EXIT_MS == 2000

\* makeKey(sessionId, userId)
makeKey(sessionId, userId) == sessionId \o ":" \o userId
Keys == {makeKey("s1", u) : u \in Users}

NoProc == 0
NoArray == 0
NoSpawn == [key |-> "", recent |-> 0, result |-> "none"]

\* failures.filter((t) => now - t < BREAKER_WINDOW_MS)
RECURSIVE filterWindow(_, _)
filterWindow(failures, t) ==
  IF failures = <<>> THEN <<>>
  ELSE IF t - Head(failures) < BREAKER_WINDOW_MS
       THEN <<Head(failures)>> \o filterWindow(Tail(failures), t)
       ELSE filterWindow(Tail(failures), t)

\* FfmpegResampler.kill(): no-op when already dead, else mark dead and SIGTERM
resamplerKill(proc) ==
  IF ~proc.alive THEN proc
  ELSE [proc EXCEPT !.alive = FALSE]

\* killByKey(key)
killByKey(reg, key) ==
  LET existing == reg.resamplers[key] IN
  IF existing = NoProc THEN reg
  ELSE [reg EXCEPT
          !.procs[existing] =
              resamplerKill(IF reg.earlyExitListeners[key] # NoProc
                            THEN [@ EXCEPT !.closeListener =
                                     IF existing = reg.earlyExitListeners[key]
                                     THEN FALSE ELSE @]
                            ELSE @),
          !.earlyExitListeners[key] = NoProc,
          !.resamplers[key] = NoProc]

\* The circuit breaker of spawn: the filtered failure list is stored, and the
\* spawn is refused when it holds BREAKER_MAX_FAILURES entries or more.
breakerOpen(failures) == Len(failures) >= BREAKER_MAX_FAILURES

\* spawn(userId, sessionId) at time t
spawn(reg, key, t) ==
  LET old == IF reg.spawnFailures[key] = NoArray THEN <<>>
             ELSE reg.arrays[reg.spawnFailures[key]]
      failures == filterWindow(old, t)
      arrayId == Len(reg.arrays) + 1
      stored == [reg EXCEPT !.arrays = Append(@, failures),
                            !.spawnFailures[key] = arrayId]
  IN IF breakerOpen(failures) THEN stored
     ELSE LET killed == killByKey(stored, key)
              procId == Len(reg.procs) + 1
              resampler == [key |-> key, alive |-> TRUE,
                            closeListener |-> TRUE,
                            spawnTime |-> t, failures |-> arrayId]
          IN [killed EXCEPT !.procs = Append(@, resampler),
                            !.earlyExitListeners[key] = procId,
                            !.resamplers[key] = procId]

\* onEarlyExit of resampler p, run by its pcmOutput 'close' event at time t
onEarlyExit(reg, p, t) ==
  LET proc == reg.procs[p] IN
  IF t - proc.spawnTime < EARLY_EXIT_MS
  THEN [reg EXCEPT !.arrays[proc.failures] = Append(@, t),
                   !.spawnFailures[proc.key] = proc.failures]
  ELSE reg

\* killAll()
registryKillAll(reg) ==
  [reg EXCEPT
     !.procs = [p \in 1..Len(reg.procs) |->
        IF \E k \in Keys : reg.resamplers[k] = p
        THEN resamplerKill(
               IF \E k \in Keys : reg.resamplers[k] = p /\ reg.earlyExitListeners[k] = p
               THEN [reg.procs[p] EXCEPT !.closeListener = FALSE]
               ELSE reg.procs[p])
        ELSE reg.procs[p]],
     !.resamplers = [k \in Keys |-> NoProc],
     !.earlyExitListeners = [k \in Keys |-> NoProc]]

\* what get(userId, sessionId) returns: NoProc for undefined
registryGetResult(reg, key) ==
  LET r == reg.resamplers[key] IN
  IF r # NoProc /\ ~reg.procs[r].alive THEN NoProc ELSE r

\* get(userId, sessionId): the live resampler; a dead entry is evicted
registryGet(reg, key) ==
  LET r == reg.resamplers[key] IN
  IF r # NoProc /\ ~reg.procs[r].alive
  THEN [reg EXCEPT !.resamplers[key] = NoProc,
                   !.earlyExitListeners[key] = NoProc]
  ELSE reg

\* -------------------------------------------------------------- VadGate
\* Date.now() at the start: any positive number of milliseconds
StartTime == 10000

checkIntervalMs == 30000

\* stt configurations (streamRotationMinutes * 60 * 1000 and the three
\* ...Seconds * 1000), all multiples of the clock step
GateConfigs ==
  { [rotationMs |-> 20000, overlapMs |-> 10000, silenceMs |-> 10000, cooldownMs |-> 10000],
    [rotationMs |-> 20000, overlapMs |-> 30000, silenceMs |-> 10000, cooldownMs |-> 10000] }

NoStream == 0
NullTime == 0
NoTimer == [kind |-> "none", due |-> 0, id |-> 0]
NoCheck == [crossed |-> FALSE, rotations |-> 0]
NoRotation == [speech |-> 0, counter |-> 0]
NoEvent == [streamSequence |-> 0, segmentStart |-> NullTime, old |-> FALSE]
NoTranscripts == [emittedOld |-> {}, lastDropped |-> NoEvent]

\* new VadGate(userId, engine, resampler, config); pcmListener is the 'data'
\* listener on the resampler's pcmOutput; speechSinceReset, rotations,
\* lastRotation, transcripts and lastWords are bookkeeping of the model: the user's
\* speaking time since the counter was last reset, what each rotateStream call
\* found, and, since the last rotation, the timestamps of the emitted events of
\* older streams and the last event that was dropped, and the number of
\* 'speechDuration' events that destroy() has emitted.
NewVadGate(config) ==
  [constructed |-> TRUE, config |-> config, pcmListener |-> TRUE,
   currentStream |-> NoStream, streamSequence |-> 0, silenceTimer |-> NoTimer,
   cooldownUntil |-> 0, cumulativeSpeechMs |-> 0, speechStartTime |-> NullTime,
   destroyed |-> FALSE, cooldownReopenTimer |-> NoTimer,
   rotationCheckTimer |-> NoTimer, rotatingStream |-> NoStream,
   rotationTimer |-> NoTimer, lastNewStreamFirstResult |-> NullTime,
   streams |-> <<>>, timers |-> {},
   speechSinceReset |-> 0, rotations |-> 0, lastRotation |-> NoRotation,
   transcripts |-> NoTranscripts, lastWords |-> 0]

NoGate == [NewVadGate(CHOOSE c \in GateConfigs : c.overlapMs < c.rotationMs)
             EXCEPT !.constructed = FALSE]

\* stream?.open
isOpen(g, s) == s # NoStream /\ g.streams[s].open

\* GoogleSttStream.close(); closedByGate notes that it ended the stream
streamClose(g, s) ==
  IF ~g.streams[s].open THEN g
  ELSE [g EXCEPT !.streams[s].open = FALSE, !.streams[s].closedByGate = TRUE]

\* The Timeout object a setTimeout / setInterval call returns: a handle that
\* differs from every pending timer and from every handle the gate still
\* holds (id tells apart handles of one kind).
timerIds(g, kind) ==
  {tm.id : tm \in {x \in g.timers \cup {g.silenceTimer, g.cooldownReopenTimer,
                                         g.rotationCheckTimer, g.rotationTimer} :
                     x.kind = kind}}
newTimer(g, kind, due) ==
  [kind |-> kind, due |-> due,
   id |-> CHOOSE i \in 1..(Cardinality(timerIds(g, kind)) + 1) :
            i \notin timerIds(g, kind) /\ \A j \in 1..(i - 1) : j \in timerIds(g, kind)]

\* setTimeout / clearTimeout
setTimer(g, tm) == [g EXCEPT !.timers = @ \cup {tm}]
clearTimer(g, tm) == [g EXCEPT !.timers = @ \ {tm}]

\* engine.createStream(...) assigned to currentStream
createStream(g) ==
  [g EXCEPT !.streams = Append(@, [open |-> TRUE, emitted |-> "none",
                                   closedByGate |-> FALSE,
                                   streamSequence |-> g.streamSequence]),
            !.currentStream = Len(g.streams) + 1]

\* openNewStream()
openNewStream(g) ==
  createStream([g EXCEPT !.streamSequence = @ + 1,
                         !.cumulativeSpeechMs = 0,
                         !.speechSinceReset = 0])

\* currentStream.onClose, as set by openNewStream and by rotateStream
onClose(g, t) ==
  IF g.destroyed THEN g
  ELSE IF /\ g.currentStream # NoStream
          /\ ~g.streams[g.currentStream].open
          /\ g.speechStartTime # NullTime
       THEN LET tm == newTimer(g, "closeReopen", t + g.config.cooldownMs)
            IN setTimer([g EXCEPT !.currentStream = NoStream,
                                  !.cooldownUntil = t + g.config.cooldownMs,
                                  !.cooldownReopenTimer = tm], tm)
       ELSE g

\* rotateStream() without closing a rotating stream that is still open
rotateStreamKeepsPrevious(g, t) ==
  LET cleared == IF g.rotationTimer # NoTimer
                 THEN [clearTimer(g, g.rotationTimer) EXCEPT !.rotationTimer = NoTimer]
                 ELSE g
      tm == newTimer(cleared, "rotation", t + g.config.overlapMs)
  IN setTimer(
       createStream([cleared EXCEPT
          !.rotatingStream = g.currentStream,
          !.streamSequence = @ + 1,
          !.cumulativeSpeechMs = 0,
          !.lastNewStreamFirstResult = NullTime,
          !.transcripts = NoTranscripts,
          !.rotationTimer = tm,
          !.rotations = @ + 1,
          !.lastRotation = [speech |-> g.speechSinceReset, counter |-> 0],
          !.speechSinceReset = 0]), tm)

\* rotateStream()
rotateStream(g, t) ==
  LET closed == IF isOpen(g, g.rotatingStream)
                THEN streamClose(g, g.rotatingStream) ELSE g
      cleared == IF closed.rotationTimer # NoTimer
                 THEN [clearTimer(closed, closed.rotationTimer)
                         EXCEPT !.rotationTimer = NoTimer]
                 ELSE closed
      tm == newTimer(cleared, "rotation", t + g.config.overlapMs)
  IN setTimer(
       createStream([cleared EXCEPT
          !.rotatingStream = g.currentStream,
          !.streamSequence = @ + 1,
          !.cumulativeSpeechMs = 0,
          !.lastNewStreamFirstResult = NullTime,
          !.transcripts = NoTranscripts,
          !.rotationTimer = tm,
          !.rotations = @ + 1,
          !.lastRotation = [speech |-> g.speechSinceReset, counter |-> 0],
          !.speechSinceReset = 0]), tm)

\* checkRotation()
checkRotation(g, t) ==
  IF g.cumulativeSpeechMs >= g.config.rotationMs /\ isOpen(g, g.currentStream)
  THEN rotateStream(g, t) ELSE g

\* closeCurrentStream()
closeCurrentStream(g, t) ==
  LET closed == IF isOpen(g, g.currentStream)
                THEN [streamClose(g, g.currentStream)
                        EXCEPT !.cooldownUntil = t + g.config.cooldownMs]
                ELSE g
  IN [closed EXCEPT !.currentStream = NoStream]

\* the setInterval callback of onSpeakingStart
rotationCheck(g, t) ==
  IF g.destroyed THEN g
  ELSE IF g.speechStartTime # NullTime
       THEN LET runningMs == g.cumulativeSpeechMs + (t - g.speechStartTime) IN
            IF runningMs >= g.config.rotationMs /\ isOpen(g, g.currentStream)
            THEN rotateStream([g EXCEPT !.cumulativeSpeechMs = runningMs,
                                        !.speechStartTime = t], t)
            ELSE g
       ELSE g

\* boundPcmHandler: the streams a PCM chunk of the resampler is written to
pcmTargets(g) ==
  IF g.destroyed \/ ~g.pcmListener THEN {}
  ELSE {s \in {g.currentStream, g.rotatingStream} : isOpen(g, s)}

\* Mutant: onSpeakingStart() opens the stream without looking at the cooldown.
gateOnSpeakingStartIgnoresCooldown(g, t) ==
  IF g.destroyed THEN g
  ELSE
    LET g1 == IF g.silenceTimer # NoTimer
              THEN [clearTimer(g, g.silenceTimer) EXCEPT !.silenceTimer = NoTimer]
              ELSE g
        g2 == [g1 EXCEPT !.speechStartTime = t]
        check == newTimer(g2, "check", t + checkIntervalMs)
        g3 == IF g2.rotationCheckTimer = NoTimer
              THEN setTimer([g2 EXCEPT !.rotationCheckTimer = check], check)
              ELSE g2
        g4 == IF g3.cooldownReopenTimer # NoTimer
              THEN [clearTimer(g3, g3.cooldownReopenTimer)
                      EXCEPT !.cooldownReopenTimer = NoTimer]
              ELSE g3
    IN IF ~isOpen(g4, g4.currentStream) THEN openNewStream(g4) ELSE g4

\* onSpeakingStart()
gateOnSpeakingStart(g, t) ==
  IF g.destroyed THEN g
  ELSE
    LET g1 == IF g.silenceTimer # NoTimer
              THEN [clearTimer(g, g.silenceTimer) EXCEPT !.silenceTimer = NoTimer]
              ELSE g
        g2 == [g1 EXCEPT !.speechStartTime = t]
        check == newTimer(g2, "check", t + checkIntervalMs)
        g3 == IF g2.rotationCheckTimer = NoTimer
              THEN setTimer([g2 EXCEPT !.rotationCheckTimer = check], check)
              ELSE g2
        g4 == IF g3.cooldownReopenTimer # NoTimer
              THEN [clearTimer(g3, g3.cooldownReopenTimer)
                      EXCEPT !.cooldownReopenTimer = NoTimer]
              ELSE g3
    IN IF ~isOpen(g4, g4.currentStream)
       THEN IF t < g4.cooldownUntil
            THEN LET tm == newTimer(g4, "cooldownReopen", g4.cooldownUntil)
                 IN setTimer([g4 EXCEPT !.cooldownReopenTimer = tm], tm)
            ELSE openNewStream(g4)
       ELSE g4

\* onSpeakingEnd()
gateOnSpeakingEnd(g, t) ==
  IF g.destroyed THEN g
  ELSE
    LET g1 == IF g.rotationCheckTimer # NoTimer
              THEN [clearTimer(g, g.rotationCheckTimer)
                      EXCEPT !.rotationCheckTimer = NoTimer]
              ELSE g
        g2 == IF g1.cooldownReopenTimer # NoTimer
              THEN [clearTimer(g1, g1.cooldownReopenTimer)
                      EXCEPT !.cooldownReopenTimer = NoTimer]
              ELSE g1
        g3 == IF g2.speechStartTime # NullTime
              THEN [g2 EXCEPT !.cumulativeSpeechMs = @ + (t - g2.speechStartTime),
                              !.speechStartTime = NullTime]
              ELSE g2
        g4 == checkRotation(g3, t)
        tm == newTimer(g4, "silence", t + g.config.silenceMs)
    IN setTimer([g4 EXCEPT !.silenceTimer = tm], tm)

\* Mutant: the overlap timer forgets the old stream without closing it.
rotationTimeoutLeavesOpen(g) ==
  [g EXCEPT !.rotatingStream = NoStream, !.rotationTimer = NoTimer]

\* the callback of rotateStream's overlap timer
rotationTimeout(g) ==
  LET closed == IF isOpen(g, g.rotatingStream)
                THEN streamClose(g, g.rotatingStream) ELSE g
  IN [closed EXCEPT !.rotatingStream = NoStream, !.rotationTimer = NoTimer]

\* the callback of onSpeakingStart's deferred open
cooldownReopen(g) ==
  LET g1 == [g EXCEPT !.cooldownReopenTimer = NoTimer] IN
  IF ~g1.destroyed /\ ~isOpen(g1, g1.currentStream)
  THEN openNewStream(g1) ELSE g1

\* the callback of the reopen timer set by onClose
closeReopen(g) ==
  LET g1 == [g EXCEPT !.cooldownReopenTimer = NoTimer] IN
  IF ~g1.destroyed /\ g1.speechStartTime # NullTime /\ ~isOpen(g1, g1.currentStream)
  THEN openNewStream(g1) ELSE g1

\* Math.abs(a - b)
Abs(x) == IF x < 0 THEN -x ELSE x

DEDUP_WINDOW_MS == 2000

\* handleTranscript(event); segmentStart is the event's ISO timestamp as the
\* milliseconds that new Date(...).getTime() reads back from it
handleTranscript(g, event) ==
  IF g.destroyed THEN g
  ELSE LET old == event.streamSequence < g.streamSequence
           seen == [event EXCEPT !.old = old]
           noted == IF g.rotations > 0 /\ old THEN {event.segmentStart} ELSE {}
       IN IF /\ g.rotatingStream # NoStream /\ old
             /\ g.lastNewStreamFirstResult # NullTime
             /\ Abs(event.segmentStart - g.lastNewStreamFirstResult) <= DEDUP_WINDOW_MS
          THEN [g EXCEPT !.transcripts.lastDropped = seen]
          ELSE [g EXCEPT
                  !.lastNewStreamFirstResult =
                     IF event.streamSequence = g.streamSequence /\ @ = NullTime
                     THEN event.segmentStart ELSE @,
                  !.transcripts.emittedOld = @ \cup noted]

\* the value onSpeakingEnd() emits as 'speechDuration' at time t (0: none)
speechDurationAtEnd(g, t) ==
  IF ~g.destroyed /\ g.speechStartTime # NullTime THEN t - g.speechStartTime ELSE 0

\* the value the setInterval callback emits as 'speechDuration' at time t
speechDurationAtCheck(g, t) ==
  IF /\ ~g.destroyed /\ g.speechStartTime # NullTime
     /\ g.cumulativeSpeechMs + (t - g.speechStartTime) >= g.config.rotationMs
     /\ isOpen(g, g.currentStream)
  THEN t - g.speechStartTime ELSE 0

\* the value destroy() emits as 'speechDuration' at time t
speechDurationAtDestroy(g, t) ==
  IF g.speechStartTime # NullTime THEN t - g.speechStartTime ELSE 0

\* destroy()
gateDestroy(g) ==
  LET g1 == [g EXCEPT !.destroyed = TRUE, !.speechStartTime = NullTime,
                      !.lastWords = IF g.speechStartTime # NullTime
                                    THEN @ + 1 ELSE @]
      g2 == [g1 EXCEPT
               !.timers = @ \ {g1.silenceTimer, g1.cooldownReopenTimer,
                               g1.rotationCheckTimer, g1.rotationTimer},
               !.silenceTimer = NoTimer, !.cooldownReopenTimer = NoTimer,
               !.rotationCheckTimer = NoTimer, !.rotationTimer = NoTimer]
      g3 == IF isOpen(g2, g2.currentStream)
            THEN streamClose(g2, g2.currentStream) ELSE g2
      g4 == IF isOpen(g3, g3.rotatingStream)
            THEN streamClose(g3, g3.rotatingStream) ELSE g3
  IN [g4 EXCEPT !.currentStream = NoStream, !.rotatingStream = NoStream,
                !.pcmListener = FALSE]

\* --------------------------------------------------------- SttProcessor
NoGateRef == 0

\* config.stt.maxConcurrentStreams: the loaded configuration always holds a
\* positive number, 8 unless config.json sets another
DefaultStreamCap == 8

\* config.stt as every gate of the session receives it
SessionSttConfig == CHOOSE c \in GateConfigs : c.overlapMs < c.rotationMs

\* new SttProcessor(engine, config, sessionId); heap holds every VadGate the
\* processor has constructed, with the resampler it was constructed on
NewSttProcessor(maxConcurrentStreams) ==
  [constructed |-> TRUE, maxConcurrentStreams |-> maxConcurrentStreams,
   sessionId |-> "s1", destroyed |-> FALSE,
   gates |-> [u \in Users |-> NoGateRef], heap |-> <<>>]

NoProcessor == [NewSttProcessor(DefaultStreamCap) EXCEPT !.constructed = FALSE]

\* this.gates.size
gatesSize(p) == Cardinality({u \in Users : p.gates[u] # NoGateRef})

\* The orchestrator and the registry singleton it calls into: the operators
\* below take and return the pair [p |-> processor, reg |-> registry].

\* addUser(userId) without the maxConcurrentStreams check
addUserUncapped(w, userId) ==
  LET key == makeKey(w.p.sessionId, userId) IN
  IF w.p.destroyed \/ w.p.gates[userId] # NoGateRef THEN w
  ELSE LET reg == registryGet(w.reg, key)
           resampler == reg.resamplers[key]
       IN IF resampler = NoProc THEN [w EXCEPT !.reg = reg]
          ELSE [p |-> [w.p EXCEPT
                         !.heap = Append(@, [userId |-> userId,
                                              resampler |-> resampler,
                                              vad |-> NewVadGate(SessionSttConfig)]),
                         !.gates[userId] = Len(w.p.heap) + 1],
                reg |-> reg]

\* addUser(userId)
addUser(w, userId) ==
  LET key == makeKey(w.p.sessionId, userId) IN
  IF w.p.destroyed \/ w.p.gates[userId] # NoGateRef THEN w
  ELSE IF /\ w.p.maxConcurrentStreams > 0
          /\ gatesSize(w.p) >= w.p.maxConcurrentStreams
       THEN w
       ELSE LET reg == registryGet(w.reg, key)
                resampler == reg.resamplers[key]
            IN IF resampler = NoProc THEN [w EXCEPT !.reg = reg]
               ELSE [p |-> [w.p EXCEPT
                              !.heap = Append(@, [userId |-> userId,
                                                   resampler |-> resampler,
                                                   vad |-> NewVadGate(SessionSttConfig)]),
                              !.gates[userId] = Len(w.p.heap) + 1],
                     reg |-> reg]

\* hasUser(userId)
hasUser(p, userId) == p.gates[userId] # NoGateRef

\* removeUser(userId)
removeUser(p, userId) ==
  LET gateRef == p.gates[userId] IN
  IF gateRef = NoGateRef THEN p
  ELSE [p EXCEPT !.heap[gateRef].vad = gateDestroy(@), !.gates[userId] = NoGateRef]

\* SttProcessor.onSpeakingStart(userId) at time t
processorOnSpeakingStart(w, userId, t) ==
  LET key == makeKey(w.p.sessionId, userId)
      gateRef == w.p.gates[userId]
  IN IF gateRef = NoGateRef THEN w
     ELSE LET reg == registryGet(w.reg, key)
              resampler == reg.resamplers[key]
          IN IF resampler = NoProc \/ ~reg.procs[resampler].alive
             THEN LET rebuilt == addUser([p |-> removeUser(w.p, userId),
                                          reg |-> spawn(reg, key, t)], userId)
                      fresh == rebuilt.p.gates[userId]
                  IN IF fresh = NoGateRef THEN rebuilt
                     ELSE [rebuilt EXCEPT !.p.heap[fresh].vad = gateOnSpeakingStart(@, t)]
             ELSE [p |-> [w.p EXCEPT !.heap[gateRef].vad = gateOnSpeakingStart(@, t)],
                   reg |-> reg]

\* SttProcessor.onSpeakingEnd(userId) at time t
processorOnSpeakingEnd(p, userId, t) ==
  LET gateRef == p.gates[userId] IN
  IF gateRef = NoGateRef THEN p
  ELSE [p EXCEPT !.heap[gateRef].vad = gateOnSpeakingEnd(@, t)]

\* SttProcessor.destroy()
processorDestroy(p) ==
  [p EXCEPT !.destroyed = TRUE,
            !.heap = [i \in 1..Len(p.heap) |->
                        IF \E u \in Users : p.gates[u] = i
                        THEN [p.heap[i] EXCEPT !.vad = gateDestroy(@)]
                        ELSE p.heap[i]],
            !.gates = [u \in Users |-> NoGateRef]]

\* ------------------------------------------------- transcript_segments
\* SQL NULL in a text or timestamp column, and in an integer column
NullText == "NULL"
NullInt == -1

\* the columns of the partial unique index idx_transcript_stt_result
segmentKey(row) ==
  <<row.session_id, row.track_id, row.user_id, row.stream_sequence, row.stt_result_id>>

\* COALESCE(a, b)
Coalesce(a, b, null) == IF a # null THEN a ELSE b

\* the DO UPDATE SET of the UPSERT, without the finality guards
doUpdateOverwrites(row, excluded, t) ==
  [row EXCEPT
     !.transcript = excluded.transcript,
     !.confidence = excluded.confidence,
     !.segment_end = excluded.segment_end,
     !.is_final = excluded.is_final,
     !.burst_id = Coalesce(excluded.burst_id, @, NullInt),
     !.display_name = Coalesce(excluded.display_name, @, NullText),
     !.speaker_label = Coalesce(excluded.speaker_label, @, NullText),
     !.updated_at = t]

\* the DO UPDATE SET of the UPSERT
doUpdate(row, excluded, t) ==
  LET wins == excluded.is_final >= row.is_final IN
  [row EXCEPT
     !.transcript = IF wins THEN excluded.transcript ELSE @,
     !.confidence = IF wins THEN excluded.confidence ELSE @,
     !.segment_end = IF wins THEN excluded.segment_end ELSE @,
     !.is_final = Max(@, excluded.is_final),
     !.burst_id = Coalesce(excluded.burst_id, @, NullInt),
     !.display_name = Coalesce(excluded.display_name, @, NullText),
     !.speaker_label = Coalesce(excluded.speaker_label, @, NullText),
     !.updated_at = t]

\* The table: its rows and the AUTOINCREMENT counter of its id column
\* (sqlite_sequence), which every INSERT uses up, the one that ends in
\* DO UPDATE included.  With it the ids of the sessions table and the rows of
\* audio_tracks and audio_speech_bursts, whose id is their position: a
\* deleted row keeps its place, as AUTOINCREMENT never hands an id out again.
NoRows == [rows |-> <<>>, seq |-> 0, sessions |-> {},
           audio_tracks |-> <<>>, audio_speech_bursts |-> <<>>]

\* a row with this id is in audio_tracks, in audio_speech_bursts
hasTrack(db, id) ==
  id \in 1..Len(db.audio_tracks) /\ ~db.audio_tracks[id].deleted
hasBurst(db, id) ==
  id \in 1..Len(db.audio_speech_bursts) /\ ~db.audio_speech_bursts[id].deleted

\* PRAGMA foreign_keys = ON: every REFERENCES clause of the four tables holds
foreignKeysHold(db) ==
  /\ \A i \in 1..Len(db.rows) :
        /\ db.rows[i].session_id \in db.sessions
        /\ hasTrack(db, db.rows[i].track_id)
        /\ db.rows[i].burst_id # NullInt => hasBurst(db, db.rows[i].burst_id)
  /\ \A i \in 1..Len(db.audio_speech_bursts) :
        hasBurst(db, i) => hasTrack(db, db.audio_speech_bursts[i].track_id)
  /\ \A i \in 1..Len(db.audio_tracks) :
        hasTrack(db, i) => db.audio_tracks[i].session_id \in db.sessions

\* The INSERT ... ON CONFLICT DO UPDATE (or the plain INSERT) of
\* insertTranscriptSegment at time t, were no foreign key enforced.
segmentWritten(db, segment, t) ==
  LET table == db.rows
      excluded == [id |-> db.seq + 1,
                   session_id |-> segment.sessionId, track_id |-> segment.trackId,
                   burst_id |-> segment.burstId, user_id |-> segment.userId,
                   display_name |-> segment.displayName,
                   speaker_label |-> segment.speakerLabel,
                   segment_start |-> segment.segmentStart,
                   segment_end |-> segment.segmentEnd,
                   transcript |-> segment.transcript,
                   confidence |-> segment.confidence,
                   is_final |-> IF segment.isFinal THEN 1 ELSE 0,
                   stt_result_id |-> segment.sttResultId,
                   stream_sequence |-> segment.streamSequence,
                   created_at |-> t, updated_at |-> NullInt]
      conflicts == {i \in 1..Len(table) :
                      /\ table[i].stt_result_id # NullText
                      /\ segmentKey(table[i]) = segmentKey(excluded)}
  IN [db EXCEPT
        !.rows = IF segment.sttResultId # NullText /\ conflicts # {}
                 THEN [i \in 1..Len(table) |->
                         IF i \in conflicts THEN doUpdate(table[i], excluded, t)
                         ELSE table[i]]
                 ELSE Append(table, excluded),
        !.seq = db.seq + 1]

\* insertTranscriptSegment(segment) at time t: the tables afterwards.  A
\* statement that breaks a foreign key fails: better-sqlite3 throws, and
\* neither a row nor the id counter is changed.
insertTranscriptSegment(db, segment, t) ==
  LET written == segmentWritten(db, segment, t) IN
  IF foreignKeysHold(written) THEN written ELSE db

\* insertTranscriptSegment threw SQLITE_CONSTRAINT_FOREIGNKEY: a statement
\* that runs uses up an id, one that fails leaves the tables as they were
insertThrew(db, after) == after = db

\* the id insertTranscriptSegment returns: RETURNING id of the row written, or
\* lastInsertRowid of the plain INSERT
returnedId(db, segment) ==
  LET key == <<segment.sessionId, segment.trackId, segment.userId,
               segment.streamSequence, segment.sttResultId>>
      conflicts == {i \in 1..Len(db.rows) :
                      /\ db.rows[i].stt_result_id # NullText
                      /\ segmentKey(db.rows[i]) = key}
  IN IF segment.sttResultId # NullText /\ conflicts # {}
     THEN db.rows[CHOOSE i \in conflicts : TRUE].id
     ELSE db.seq + 1

\* updateDisplayNameBySpeakerLabel(sessionId, speakerLabel, displayName) at
\* time t
updateDisplayNameBySpeakerLabel(db, sessionId, speakerLabel, displayName, t) ==
  [db EXCEPT !.rows = [i \in 1..Len(db.rows) |->
     IF db.rows[i].session_id = sessionId /\ db.rows[i].speaker_label = speakerLabel
     THEN [db.rows[i] EXCEPT !.display_name = displayName, !.updated_at = t]
     ELSE db.rows[i]]]

\* DELETE FROM transcript_segments WHERE ...: the rows that stay; the
\* AUTOINCREMENT counter is left as it is
RECURSIVE rowsKept(_, _, _)
rowsKept(rows, sessionIds, userIds) ==
  IF rows = <<>> THEN <<>>
  ELSE IF Head(rows).session_id \in sessionIds /\ Head(rows).user_id \in userIds
  THEN rowsKept(Tail(rows), sessionIds, userIds)
  ELSE <<Head(rows)>> \o rowsKept(Tail(rows), sessionIds, userIds)

\* DELETE FROM audio_speech_bursts WHERE track_id IN trackIds, and DELETE FROM
\* audio_tracks for the same ids
tracksDeleted(db, trackIds) ==
  [db EXCEPT
     !.audio_speech_bursts =
        [i \in 1..Len(@) |-> IF @[i].track_id \in trackIds
                              THEN [@[i] EXCEPT !.deleted = TRUE] ELSE @[i]],
     !.audio_tracks =
        [i \in 1..Len(@) |-> IF i \in trackIds
                              THEN [@[i] EXCEPT !.deleted = TRUE] ELSE @[i]]]

\* One pass of the loop of deleteUserDataInGuild, for session sid: the user's
\* segments, the speech bursts of the user's tracks, the tracks.
userDataDeleted(db, sid, userId) ==
  tracksDeleted([db EXCEPT !.rows = rowsKept(@, {sid}, {userId})],
                {i \in 1..Len(db.audio_tracks) :
                    /\ db.audio_tracks[i].session_id = sid
                    /\ db.audio_tracks[i].user_id = userId})

\* The loop over sessionIds; a statement that breaks a foreign key ends it.
\* A segment that still refers to a deleted burst or track is removed by no
\* later statement of the same pass, so the pass is tested at its end.
RECURSIVE userDataLoop(_, _, _)
userDataLoop(db, sessionIds, userId) ==
  IF sessionIds = <<>> \/ ~foreignKeysHold(db) THEN db
  ELSE userDataLoop(userDataDeleted(db, Head(sessionIds), userId),
                    Tail(sessionIds), userId)

\* deleteUserDataInGuild(guildId, userId), guildSessions being the ids of the
\* guild's sessions in the order the SELECT yields those that are stored:
\* one transaction, rolled back as a whole when a statement throws
deleteUserDataInGuild(db, guildSessions, userId) ==
  LET stored(sid) == sid \in db.sessions
      sessionIds == SelectSeq(guildSessions, stored)
      deleted == userDataLoop(db, sessionIds, userId)
  IN IF foreignKeysHold(deleted) THEN deleted ELSE db

\* the statements of deleteSessionCascade(sessionId)
sessionDeleted(db, sessionId) ==
  [tracksDeleted([db EXCEPT !.rows = rowsKept(@, {sessionId},
                                              {@[i].user_id : i \in 1..Len(@)})],
                 {i \in 1..Len(db.audio_tracks) :
                     db.audio_tracks[i].session_id = sessionId})
     EXCEPT !.sessions = @ \ {sessionId}]

\* deleteSessionCascade(sessionId): one transaction, rolled back as a whole
\* when a statement throws
deleteSessionCascade(db, sessionId) ==
  LET deleted == sessionDeleted(db, sessionId) IN
  IF foreignKeysHold(deleted) THEN deleted ELSE db

\* ------------------------------------------------------ FfmpegResampler
IDLE_WATCHDOG_MS == 3600000
SIGKILL_GRACE_MS == 2000
\* writableHighWaterMark of the child's stdin pipe, in bytes
HighWaterMark == 16384

\* opusDecoder.decode(chunk): the PCM of one packet, 48 kHz stereo s16le, as a
\* byte count; -1 when the decoder throws (an empty or corrupted packet).
DecodedBytes(chunk) ==
  IF chunk = <<>> THEN -1
  ELSE LET ms10 == IF chunk[1] = 248 THEN 200 ELSE 25   \* tenths of a ms
       IN (48 * ms10 * 4) \div 10

\* The child's stdin as the parent holds it: a Writable over a pipe. length is
\* what has been written and not yet taken by the child; readerClosed says
\* the child has closed its end; errored says a write has failed, after which
\* the stream is not writable and emits 'error' on the next tick.
NewStdin ==
  [writable |-> TRUE, length |-> 0, needDrain |-> FALSE,
   readerClosed |-> FALSE, errored |-> FALSE, errorEmitted |-> FALSE]
\* the stream once it is destroyed: by its error or by the exit of the child
DestroyedStdin(stdin) ==
  [stdin EXCEPT !.writable = FALSE, !.length = 0, !.needDrain = FALSE]

\* new FfmpegResampler(userId) at time t: the child is spawned, the listeners
\* are attached and the idle watchdog is started.
NewFfmpegResampler(t) ==
  [constructed |-> TRUE,
   alive |-> TRUE, paused |-> FALSE,
   watchdogTimer |-> t + IDLE_WATCHDOG_MS,
   sigkillTimers |-> {},       \* due times of the pending SIGKILL fallbacks
   exitOnce |-> {},            \* the timers the once('exit') listeners clear
   exited |-> FALSE,           \* process.exitCode / signalCode is set
   stdin |-> NewStdin,
   signals |-> <<>>,           \* what process.kill delivered, in order
   handed |-> 0,               \* chunks passed to stdin.write
   pausedWrites |-> 0,         \* of these, while paused
   dropped |-> 0,              \* chunks dropped while paused
   resumed |-> FALSE,          \* a write was accepted after a drain
   ticks |-> 0]                \* clock steps taken since construction
NoResampler == [NewFfmpegResampler(0) EXCEPT !.constructed = FALSE,
                                              !.alive = FALSE,
                                              !.watchdogTimer = NullTime]

\* resetWatchdog() / clearWatchdog()
resetWatchdog(r, t) == [r EXCEPT !.watchdogTimer = t + IDLE_WATCHDOG_MS]
clearWatchdog(r) == [r EXCEPT !.watchdogTimer = NullTime]

\* stdin.write(pcm). With nothing queued the bytes go to the pipe at once,
\* and when the child has closed its end that fails with EPIPE inside the
\* call: the stream is errored and no longer writable, nothing is queued and
\* no 'drain' is owed. Otherwise the bytes are queued, and 'drain' is owed
\* once the queue has reached the high-water mark.
stdinWrite(r, bytes) ==
  IF r.stdin.readerClosed /\ r.stdin.length = 0
  THEN [r EXCEPT !.stdin.errored = TRUE, !.stdin.writable = FALSE]
  ELSE LET len == r.stdin.length + bytes IN
       [r EXCEPT !.stdin.length = len,
                 !.stdin.needDrain = @ \/ len >= HighWaterMark]
\* what stdin.write returned: false when the queue is at the high-water mark
\* or the stream is errored
stdinWriteOk(written) ==
  written.stdin.length < HighWaterMark /\ ~written.stdin.errored

\* Mutant: chunks are written while paused.
writeOpusDataIgnoresPause(r, chunk, t, writeThrows) ==
  IF ~r.alive \/ ~r.stdin.writable THEN r
  ELSE LET w == resetWatchdog(r, t)
           bytes == DecodedBytes(chunk)
       IN IF bytes < 0 THEN w
          ELSE IF writeThrows THEN [w EXCEPT !.alive = FALSE]
          ELSE LET written == stdinWrite(w, bytes)
               IN [written EXCEPT !.handed = @ + 1,
                                  !.pausedWrites = IF r.paused THEN @ + 1 ELSE @,
                                  !.paused = IF stdinWriteOk(written) THEN @ ELSE TRUE]

\* writeOpusData(chunk) at time t; writeThrows says that stdin.write raised
\* instead of returning, which the method catches
writeOpusData(r, chunk, t, writeThrows) ==
  IF ~r.alive \/ ~r.stdin.writable THEN r
  ELSE IF r.paused THEN [r EXCEPT !.dropped = @ + 1]
  ELSE LET w == resetWatchdog(r, t)
           bytes == DecodedBytes(chunk)
       IN IF bytes < 0 THEN w
          ELSE IF writeThrows THEN [w EXCEPT !.alive = FALSE]
          ELSE LET written == stdinWrite(w, bytes)
               IN [written EXCEPT !.handed = @ + 1,
                                  !.pausedWrites = IF r.paused THEN @ + 1 ELSE @,
                                  !.resumed = @ \/ r.dropped > 0,
                                  !.paused = IF stdinWriteOk(written) THEN @ ELSE TRUE]

\* stdin 'drain' listener
onDrain(r) == IF r.paused THEN [r EXCEPT !.paused = FALSE] ELSE r

\* The queue of stdin has been written out to the child; 'drain' is emitted
\* when a write had returned false.
stdinFlushed(r) ==
  LET flushed == [r EXCEPT !.stdin.length = 0, !.stdin.needDrain = FALSE] IN
  IF r.stdin.needDrain THEN onDrain(flushed) ELSE flushed

\* stdin.end(): the stream is no longer writable and, being ended, owes no
\* 'drain' any more; what is queued is still written out to the child
stdinEnd(r) == [r EXCEPT !.stdin.writable = FALSE, !.stdin.needDrain = FALSE]

\* the child closes its end of the pipe; the parent learns of it from the
\* next write, or from the write that is waiting in the queue
readerCloses(r) == [r EXCEPT !.stdin.readerClosed = TRUE]

\* process.kill(signal) at time t, with whether the child had exited by then
processKill(r, signal, t) ==
  [r EXCEPT !.signals = Append(@, [signal |-> signal, at |-> t,
                                   exited |-> r.exited])]

\* Mutant: kill() without the _alive guard.
killAlways(r, t) ==
  LET c == clearWatchdog([r EXCEPT !.alive = FALSE])
      ended == stdinEnd(c)
      termed == processKill(ended, "SIGTERM", t)
  IN [termed EXCEPT !.sigkillTimers = @ \cup {t + SIGKILL_GRACE_MS},
                    !.exitOnce = @ \cup {t + SIGKILL_GRACE_MS}]

\* kill() at time t
kill(r, t) ==
  IF ~r.alive THEN r
  ELSE LET c == clearWatchdog([r EXCEPT !.alive = FALSE])
           ended == stdinEnd(c)
           termed == processKill(ended, "SIGTERM", t)
       IN [termed EXCEPT !.sigkillTimers = @ \cup {t + SIGKILL_GRACE_MS},
                         !.exitOnce = @ \cup {t + SIGKILL_GRACE_MS}]

\* the SIGKILL fallback timer armed by kill(), running at time t
sigkillFallback(r, tm, t) ==
  LET fired == [r EXCEPT !.sigkillTimers = @ \ {tm}] IN
  IF r.exited THEN fired ELSE processKill(fired, "SIGKILL", t)

\* the idle watchdog callback
watchdogFired(r, t) ==
  LET fired == [r EXCEPT !.watchdogTimer = NullTime] IN
  IF r.alive THEN kill(fired, t) ELSE fired

\* process 'exit': the constructor's listener, then the once-listeners of kill
onExit(r) ==
  LET c == clearWatchdog([r EXCEPT !.alive = FALSE, !.exited = TRUE])
  IN [c EXCEPT !.sigkillTimers = @ \ r.exitOnce,
               !.exitOnce = {},
               !.stdin = [DestroyedStdin(@) EXCEPT !.readerClosed = TRUE]]

\* stdin 'error' with code EPIPE: the write that failed inside stdin.write, or
\* the queued write that fails once the child has closed its end; the stream
\* is destroyed and the listener marks the resampler dead
onStdinEpipe(r) ==
  [r EXCEPT !.alive = FALSE,
            !.stdin = [DestroyedStdin(@) EXCEPT !.errored = TRUE,
                                                !.errorEmitted = TRUE]]

\* ------------------------------------------------------- engine factory
\* config.stt.engine as loadConfig keeps it, and the diarized option of a
\* session
EngineTypes == {"google-cloud-stt", "whisper", "gemini"}
NoEngine == 0

\* makeKey(config, diarized): `${config.engine}:${diarized}`
engineKey(engine, diarized) ==
  engine \o ":" \o (IF diarized THEN "true" ELSE "false")
EngineKeys == {engineKey(e, dz) : e \in EngineTypes, dz \in BOOLEAN}

\* createEngine's default branch: throw new Error(`Unknown STT engine: ...`)
UnknownEngine == "Unknown STT engine"

\* createEngine(config, diarized): the class of the engine constructed, or
\* UnknownEngine when the call throws
createEngine(engine, diarized) ==
  IF engine = "google-cloud-stt"
  THEN (IF diarized THEN "GoogleCloudDiarizedEngine" ELSE "GoogleCloudSttEngine")
  ELSE IF engine = "whisper" THEN "WhisperEngine"
  ELSE UnknownEngine

\* acquireSttEngine(config, diarized); acquired, released and destroyed count
\* the calls an engine object has seen. When createEngine throws, the call
\* throws before engines.set and the registry stays as it was.
acquireSttEngine(es, engine, diarized) ==
  LET key == engineKey(engine, diarized)
      existing == es.map[key]
  IN IF existing # NoEngine
     THEN [es EXCEPT !.created[existing].refCount = @ + 1,
                     !.created[existing].acquired = @ + 1]
     ELSE IF createEngine(engine, diarized) = UnknownEngine THEN es
     ELSE [es EXCEPT !.created = Append(@, [key |-> key,
                                            class |-> createEngine(engine, diarized),
                                            refCount |-> 1, acquired |-> 1,
                                            released |-> 0, destroyed |-> 0]),
                     !.map[key] = Len(es.created) + 1]

\* Mutant: every release destroys the engine.
releaseSttEngineAlwaysDestroys(es, engine, diarized) ==
  LET key == engineKey(engine, diarized)
      entry == es.map[key]
  IN IF entry = NoEngine THEN es
     ELSE [es EXCEPT !.created[entry].refCount = @ - 1,
                     !.created[entry].released = @ + 1,
                     !.created[entry].destroyed = @ + 1,
                     !.map[key] = NoEngine]

\* releaseSttEngine(config, diarized)
releaseSttEngine(es, engine, diarized) ==
  LET key == engineKey(engine, diarized)
      entry == es.map[key]
  IN IF entry = NoEngine THEN es
     ELSE LET counted == [es EXCEPT !.created[entry].refCount = @ - 1,
                                    !.created[entry].released = @ + 1]
          IN IF counted.created[entry].refCount <= 0
             THEN [counted EXCEPT !.created[entry].destroyed = @ + 1,
                                  !.map[key] = NoEngine]
             ELSE counted

\* destroyAllEngines(): destroy() on every registered engine, whatever its
\* reference count, then engines.clear()
destroyAllEngines(es) ==
  [es EXCEPT !.created = [i \in 1..Len(es.created) |->
                            IF \E k \in EngineKeys : es.map[k] = i
                            THEN [es.created[i] EXCEPT !.destroyed = @ + 1]
                            ELSE es.created[i]],
             !.map = [k \in EngineKeys |-> NoEngine]]

\* ------------------------------------------- sessions and audio_tracks
\* insertSession: a row with status 'active' and no ended_at
insertSession(db) ==
  [db EXCEPT !.sessions = Append(@, [status |-> "active", ended_at |-> FALSE])]

\* insertAudioTrack: a row of the session with no ended_at
insertAudioTrack(db, sessionId) ==
  [db EXCEPT !.audio_tracks = Append(@, [session_id |-> sessionId, ended_at |-> FALSE])]

\* endAudioTrack(trackId, endedAt)
endAudioTrack(db, trackId) == [db EXCEPT !.audio_tracks[trackId].ended_at = TRUE]

\* endSession(sessionId, endedAt, status)
endSession(db, sessionId, status) ==
  [db EXCEPT !.sessions[sessionId] = [status |-> status, ended_at |-> TRUE]]

\* recorder.closeAll() of the session: endAudioTrack for each open track
closeAllTracks(db, sessionId) ==
  [db EXCEPT !.audio_tracks = [t \in 1..Len(@) |->
     IF @[t].session_id = sessionId THEN [@[t] EXCEPT !.ended_at = TRUE] ELSE @[t]]]

\* recoverStaleSessions(): UPDATE sessions SET status = 'error', ended_at = now
\* for every row selected with status = 'active'
recoverStaleSessions(db) ==
  [db EXCEPT !.sessions = [i \in 1..Len(@) |->
     IF @[i].status = "active" THEN [status |-> "error", ended_at |-> TRUE]
     ELSE @[i]]]

\* -------------------------------------------------------- hydrate-audio
BYTES_PER_FRAME == 3840
BYTES_PER_SECOND == 192000
MAX_SILENCE_BYTES == 300 * BYTES_PER_SECOND

\* The offsets (burst_start - first_packet_at, in ms) of the model for which
\* the double product (ms / 1000) * BYTES_PER_SECOND falls just below the
\* exact value ms * 192: (580 / 1000) * 192000 = 111359.99999999999.  For
\* the other offsets of the model (BurstOffsetsMs) the product is exact.
ProductBelowExact == {580}

\* Math.floor(targetPositionS * BYTES_PER_SECOND) with
\* targetPositionS = (burstStartMs - firstPacketAt) / 1000, in doubles
targetPositionBytes(offsetMs) ==
  IF offsetMs \in ProductBelowExact THEN offsetMs * 192 - 1 ELSE offsetMs * 192

\* a % b of JavaScript: the sign follows the dividend
Rem(a, b) == IF a >= 0 THEN a % b ELSE -((-a) % b)

\* targetPositionBytes - (targetPositionBytes % BYTES_PER_FRAME)
alignedTarget(offsetMs) ==
  targetPositionBytes(offsetMs) - Rem(targetPositionBytes(offsetMs), BYTES_PER_FRAME)

Min(a, b) == IF a <= b THEN a ELSE b

\* [...bursts].sort by burst_start: a stable insertion sort
RECURSIVE sortedBursts(_)
sortedBursts(bursts) ==
  IF bursts = <<>> THEN <<>>
  ELSE LET rest == sortedBursts(SubSeq(bursts, 1, Len(bursts) - 1))
           last == bursts[Len(bursts)]
           before == {i \in 1..Len(rest) : rest[i].burst_start <= last.burst_start}
           k == Cardinality(before)
       IN SubSeq(rest, 1, k) \o <<last>> \o SubSeq(rest, k + 1, Len(rest))

\* the .hydrated.pcm of a run: what was written, from which rows of
\* audio_speech_bursts (bursts, read once by getTrackBursts) and from how many
\* decoded frames; done once it has been encoded to the .wav
NoOutput == [done |-> FALSE, writes |-> <<>>, currentOutputBytes |-> 0,
             burstsProcessed |-> 0, noClamp |-> FALSE, decodedFrames |-> 0,
             bursts |-> <<>>]
\* a run of hydrateTrack between its awaits
NoRun == [pc |-> "idle", bursts |-> <<>>, noClamp |-> FALSE, temp |-> NoOutput]

\* Mutant: the loop body without the cap on the silence gap.
hydrateBurstUnclamped(out, burst, firstPacketAt, decodedLength, noClamp) ==
  LET totalDecodedFrames == decodedLength \div BYTES_PER_FRAME
      silenceBytes == alignedTarget(burst.burst_start - firstPacketAt)
                        - out.currentOutputBytes
      silenced == IF silenceBytes > 0
                  THEN [out EXCEPT
                          !.writes = Append(@, [kind |-> "silence", burst |-> burst.id,
                                                at |-> out.currentOutputBytes,
                                                from |-> 0, bytes |-> silenceBytes]),
                          !.currentOutputBytes = @ + silenceBytes]
                  ELSE out
      startByte == burst.start_frame_offset * BYTES_PER_FRAME
      endFrameOffset == IF burst.end_frame_offset = NullOffset
                        THEN totalDecodedFrames ELSE burst.end_frame_offset
      clampedStart == Min(startByte, decodedLength)
      clampedEnd == Min(endFrameOffset * BYTES_PER_FRAME, decodedLength)
  IN IF burst.start_frame_offset > totalDecodedFrames THEN silenced
     ELSE IF clampedStart < clampedEnd
     THEN [silenced EXCEPT
             !.writes = Append(@, [kind |-> "audio", burst |-> burst.id,
                                   at |-> silenced.currentOutputBytes,
                                   from |-> clampedStart,
                                   bytes |-> clampedEnd - clampedStart]),
             !.currentOutputBytes = @ + (clampedEnd - clampedStart),
             !.burstsProcessed = @ + 1]
     ELSE silenced

\* The body of the loop of hydrateTrack for one burst: the silence gap up to
\* the aligned target, then the burst's span of the decoded PCM.
hydrateBurst(out, burst, firstPacketAt, decodedLength, noClamp) ==
  LET totalDecodedFrames == decodedLength \div BYTES_PER_FRAME
      aligned == alignedTarget(burst.burst_start - firstPacketAt)
      gap == aligned - out.currentOutputBytes
      silenceBytes == IF ~noClamp /\ gap > MAX_SILENCE_BYTES
                      THEN MAX_SILENCE_BYTES ELSE gap
      silenced == IF silenceBytes > 0
                  THEN [out EXCEPT
                          !.writes = Append(@, [kind |-> "silence", burst |-> burst.id,
                                                at |-> out.currentOutputBytes,
                                                from |-> 0, bytes |-> silenceBytes]),
                          !.currentOutputBytes = @ + silenceBytes]
                  ELSE out
      startByte == burst.start_frame_offset * BYTES_PER_FRAME
      endFrameOffset == IF burst.end_frame_offset = NullOffset
                        THEN totalDecodedFrames ELSE burst.end_frame_offset
      endByte == endFrameOffset * BYTES_PER_FRAME
      clampedStart == Min(startByte, decodedLength)
      clampedEnd == Min(endByte, decodedLength)
  IN IF burst.start_frame_offset > totalDecodedFrames THEN silenced
     ELSE IF clampedStart < clampedEnd
     THEN [silenced EXCEPT
             !.writes = Append(@, [kind |-> "audio", burst |-> burst.id,
                                   at |-> silenced.currentOutputBytes,
                                   from |-> clampedStart,
                                   bytes |-> clampedEnd - clampedStart]),
             !.currentOutputBytes = @ + (clampedEnd - clampedStart),
             !.burstsProcessed = @ + 1]
     ELSE silenced

RECURSIVE hydrateLoop(_, _, _, _, _)
hydrateLoop(out, bursts, firstPacketAt, decodedLength, noClamp) ==
  IF bursts = <<>> THEN out
  ELSE hydrateLoop(hydrateBurst(out, Head(bursts), firstPacketAt, decodedLength, noClamp),
                   Tail(bursts), firstPacketAt, decodedLength, noClamp)

\* hydrateTrack(track, outputDir, noClamp) for a track of which it read
\* bursts, with a first_packet_at and an Ogg file that decodes to
\* decodedLength bytes: what the run that reaches its end has written
hydrateTrack(bursts, firstPacketAt, decodedLength, noClamp) ==
  [hydrateLoop(NoOutput, sortedBursts(bursts), firstPacketAt, decodedLength, noClamp)
     EXCEPT !.done = TRUE, !.bursts = bursts]

\* ------------------------------------------------------ session manager
Guilds == {"g1", "g2"}
NoSession == 0
\* getActiveSession(guildId): the id of an active row of the guild
getActiveSession(sessions, g) ==
  LET rows == {i \in 1..Len(sessions) : sessions[i].guild = g /\ sessions[i].status = "active"}
  IN IF rows = {} THEN NoSession ELSE sessions[CHOOSE i \in rows : \A j \in rows : i <= j].id

\* the interval of the resync heartbeat
RESYNC_MS == 60000

\* The session manager's handlers work on the session, its recorder and burst
\* tracker, the registry singleton and the session's SttProcessor: the
\* operators below take and return the record of the five, with threw set
\* when the handler ended in an exception.
\* Sessions are modelled with the diarized option off.

\* INSERT INTO participants fails on UNIQUE(session_id, user_id, joined_at)
insertParticipantThrows(s, userId, t) ==
  \E i \in 1..Len(s.participants) :
    s.participants[i].user_id = userId /\ s.participants[i].joined_at = t

\* insertParticipant({sessionId, userId, displayName, joinedAt})
insertParticipant(s, userId, t) ==
  [s EXCEPT !.participants =
      Append(@, [user_id |-> userId, joined_at |-> t, left_at |-> NullTime])]

\* markParticipantLeft(sessionId, userId, leftAt)
markParticipantLeft(s, userId, t) ==
  [s EXCEPT !.participants =
      [i \in 1..Len(s.participants) |->
         IF s.participants[i].user_id = userId /\ s.participants[i].left_at = NullTime
         THEN [s.participants[i] EXCEPT !.left_at = t]
         ELSE s.participants[i]]]

\* the users of the rows getSessionParticipants returns
participantIds(s) == {s.participants[i].user_id : i \in 1..Len(s.participants)}

\* the rows of a table other than the user's
RECURSIVE rowsOfOthers(_, _)
rowsOfOthers(rows, userId) ==
  IF rows = <<>> THEN <<>>
  ELSE IF Head(rows).user_id = userId THEN rowsOfOthers(Tail(rows), userId)
  ELSE <<Head(rows)>> \o rowsOfOthers(Tail(rows), userId)

\* forgetUser(guildId, userId): the user's audio files are unlinked, then
\* deleteUserDataInGuild deletes, in every session of the guild, the user's
\* audio_tracks rows with their audio_speech_bursts and the user's
\* participants rows, and the user's consent record; the ids of the deleted
\* rows are not used again (AUTOINCREMENT)
forgetUser(w, userId) ==
  LET deletedTracks == {t \in 1..Len(w.r.audioTracks) :
                          w.r.audioTracks[t].userId = userId}
  IN [w EXCEPT
        !.r.audioTracks = [t \in 1..Len(w.r.audioTracks) |->
                             IF t \in deletedTracks
                             THEN [w.r.audioTracks[t] EXCEPT !.deleted = TRUE]
                             ELSE w.r.audioTracks[t]],
        !.bt.burstRows = [b \in 1..Len(w.bt.burstRows) |->
                            IF w.bt.burstRows[b].trackId \in deletedTracks
                            THEN [w.bt.burstRows[b] EXCEPT !.deleted = TRUE]
                            ELSE w.bt.burstRows[b]],
        !.s.participants = rowsOfOthers(w.s.participants, userId),
        !.s.consented = @ \ {userId}]

\* ffmpegRegistry.spawn(userId, session.id), then session.sttProcessor?.addUser(userId)
sttWire(w, userId, t) ==
  LET spawned == spawn(w.reg, makeKey("s1", userId), t) IN
  IF w.p.constructed
  THEN LET added == addUser([p |-> w.p, reg |-> spawned], userId)
       IN [w EXCEPT !.p = added.p, !.reg = added.reg]
  ELSE [w EXCEPT !.reg = spawned]

\* teardownUserInSession(session, userId)
teardownUserInSession(w, userId, t) ==
  [w EXCEPT !.p = IF w.p.constructed THEN removeUser(w.p, userId) ELSE w.p,
            !.reg = killByKey(w.reg, makeKey("s1", userId)),
            !.bt = closeUserBurst(w.bt, w.r, userId),
            !.r = closeUserTrack(w.r, userId),
            !.s = [markParticipantLeft(w.s, userId, t)
                     EXCEPT !.notifiedUsers = @ \ {userId}]]

\* insertParticipant and subscribeUser as startSession, the late-join handler
\* and handleAccept call them one after the other
recordUser(w, userId, t) ==
  IF insertParticipantThrows(w.s, userId, t) THEN [w EXCEPT !.threw = TRUE]
  ELSE [w EXCEPT !.s = insertParticipant(w.s, userId, t),
                 !.r = subscribeUser(w.r, userId),
                 !.threw = subscribeUserThrows(w.r, userId)]

\* startSession's loop over voiceChannel.members, in the order of the
\* collection
RECURSIVE memberLoop(_, _, _, _)
memberLoop(w, members, t, sttEnabled) ==
  IF members = <<>> \/ w.threw THEN w
  ELSE LET u == Head(members) IN
       IF w.s.consentRequired /\ u \notin w.s.consented
       THEN memberLoop(w, Tail(members), t, sttEnabled)
       ELSE IF insertParticipantThrows(w.s, u, t) THEN [w EXCEPT !.threw = TRUE]
       ELSE LET listed == [w EXCEPT !.s = [insertParticipant(w.s, u, t)
                                             EXCEPT !.notifiedUsers = @ \cup {u}]]
                subscribed == [listed EXCEPT !.r = subscribeUser(w.r, u),
                                             !.threw = subscribeUserThrows(w.r, u)]
            IN IF subscribed.threw THEN subscribed
               ELSE memberLoop(
                      IF sttEnabled
                      THEN [subscribed EXCEPT !.reg = spawn(w.reg, makeKey("s1", u), t)]
                      ELSE subscribed,
                      Tail(members), t, sttEnabled)

\* the late-join handler for a user who passed its guards
lateJoin(w, userId, t, sttEnabled) ==
  LET noted == [w EXCEPT !.s.notifiedUsers = @ \cup {userId}]
      recorded == recordUser(noted, userId, t)
  IN IF recorded.threw THEN recorded
     ELSE IF sttEnabled THEN sttWire(recorded, userId, t) ELSE recorded

\* handleAccept for a user who has a track: the STT repair
handleAcceptRepair(w, userId, t) ==
  LET key == makeKey("s1", userId)
      reg == registryGet(w.reg, key)
      hasResampler == reg.resamplers[key] # NoProc
      hasGate == hasUser(w.p, userId)
  IN IF ~hasResampler \/ ~hasGate
     THEN LET added == addUser([p |-> IF hasGate THEN removeUser(w.p, userId) ELSE w.p,
                                reg |-> IF ~hasResampler THEN spawn(reg, key, t) ELSE reg],
                               userId)
          IN [w EXCEPT !.p = added.p, !.reg = added.reg]
     ELSE [w EXCEPT !.reg = reg]

\* handleAccept once guild.members.fetch has returned, on the session it
\* looked up before
handleAccept(w, userId, t, sttEnabled) ==
  IF userId \notin w.s.inChannel THEN w
  ELSE IF getTrack(w.r, userId) # NoTrack
       THEN [(IF sttEnabled /\ w.p.constructed
              THEN handleAcceptRepair(w, userId, t) ELSE w)
               EXCEPT !.s.notifiedUsers = @ \cup {userId}]
       ELSE LET recorded == recordUser(w, userId, t) IN
            IF recorded.threw THEN recorded
            ELSE [(IF sttEnabled THEN sttWire(recorded, userId, t) ELSE recorded)
                    EXCEPT !.s.notifiedUsers = @ \cup {userId}]

\* resyncVoiceMembers: the missed joins among the members of the voice
\* channel, in the order of the cache
RECURSIVE resyncJoins(_, _, _, _)
resyncJoins(w, members, t, sttEnabled) ==
  IF members = <<>> \/ w.threw THEN w
  ELSE LET u == Head(members) IN
       IF \/ w.s.consentRequired /\ u \notin w.s.consented
          \/ u \in w.s.notifiedUsers
       THEN resyncJoins(w, Tail(members), t, sttEnabled)
       ELSE LET recorded == recordUser(w, u, t) IN
            IF recorded.threw THEN recorded
            ELSE LET noted == [recorded EXCEPT !.s.notifiedUsers = @ \cup {u}]
                 IN resyncJoins(IF sttEnabled THEN sttWire(noted, u, t) ELSE noted,
                                Tail(members), t, sttEnabled)

\* resyncVoiceMembers: the missed leaves
RECURSIVE resyncLeaves(_, _, _)
resyncLeaves(w, userIds, t) ==
  IF userIds = {} THEN w
  ELSE LET u == CHOOSE x \in userIds : TRUE
       IN resyncLeaves(teardownUserInSession(w, u, t), userIds \ {u}, t)

\* resyncVoiceMembers after its await, with the teardown flag clear; an
\* exception of the first loop is caught and ends the call
resyncVoiceMembers(w, members, t, sttEnabled) ==
  LET joined == resyncJoins(w, members, t, sttEnabled) IN
  IF joined.threw THEN [joined EXCEPT !.threw = FALSE]
  ELSE resyncLeaves(joined, joined.s.notifiedUsers \ joined.s.inChannel, t)

\* the kill loop of the teardown over getSessionParticipants
RECURSIVE killParticipants(_, _)
killParticipants(reg, userIds) ==
  IF userIds = {} THEN reg
  ELSE LET u == CHOOSE x \in userIds : TRUE
       IN killParticipants(killByKey(reg, makeKey("s1", u)), userIds \ {u})

\* for (const p of participants) if (!p.left_at) markParticipantLeft(.., now)
participantsLeft(s, t) ==
  [i \in 1..Len(s.participants) |->
     IF s.participants[i].left_at = NullTime
     THEN [s.participants[i] EXCEPT !.left_at = t]
     ELSE s.participants[i]]

\* stopSession from the kill loop to endSession(.., 'stopped'), with the time
\* t that it took before it set session.tearingDown; no statement of the
\* block throws on the state of the model, so dbEnded is true in the finally
stopTeardown(w, t) ==
  [w EXCEPT !.reg = killParticipants(w.reg, participantIds(w.s)),
            !.bt = burstDestroy(w.bt, w.r),
            !.r = recorderCloseAll(w.r),
            !.s = [w.s EXCEPT !.participants = participantsLeft(w.s, t),
                              !.status = "stopped"]]

\* forceEndSession from the kill loop to endSession(.., 'error'), with the
\* time t that it took at its entry; dbEnded is true in the finally
forceEndTeardown(w, t) ==
  [w EXCEPT !.reg = killParticipants(w.reg, participantIds(w.s)),
            !.bt = burstDestroy(w.bt, w.r),
            !.r = recorderCloseAll(w.r),
            !.s = [w.s EXCEPT !.participants = participantsLeft(w.s, t),
                              !.status = "error"]]

\* the callback of shutdownAllSessions for the session, from
\* burstTracker.destroy() to the loop over the participants, with the time t
\* that it took at its entry
shutdownTeardown(w, t) ==
  [w EXCEPT !.bt = burstDestroy(w.bt, w.r),
            !.r = recorderCloseAll(w.r),
            !.s = [w.s EXCEPT !.participants = participantsLeft(w.s, t)]]

\* new BurstTracker(sessionId, recorder, receiver)
NewBurstTracker ==
  [bursts |-> [u \in Users |-> NoState],
   burstRows |-> <<>>,
   timers |-> {},
   destroyed |-> FALSE,
   listening |-> TRUE,
   others |-> {},
   otherHeard |-> FALSE,
   forceClosed |-> {}]

NoBurstTracker == [NewBurstTracker EXCEPT !.listening = FALSE]

\* no session: nothing in activeSessions, no sessions row, no startSession
\* call and no heartbeat callback under way; the members of the voice
\* channel, the guild's consent setting and its users' consent records
NoSessionState ==
  [registered |-> FALSE, status |-> "none", tearingDown |-> FALSE,
   startCall |-> "none", startedAt |-> NullTime, resyncing |-> FALSE,
   notifiedUsers |-> {}, participants |-> <<>>, resyncTimer |-> NullTime,
   inChannel |-> {}, consentRequired |-> FALSE, consented |-> {},
   replying |-> {}, accepting |-> {}, revoking |-> {}, calls |-> <<>>]

Init ==
  /\ recorder = [tracks |-> [u \in Users |-> NoTrack],
                 audioTracks |-> <<>>,
                 muxers |-> <<>>]
  /\ tracker = NoBurstTracker
  /\ session = NoSessionState
  /\ mux = NoMuxer
  /\ muxed = [frames |-> <<>>, attempted |-> FALSE]
  /\ registry = [resamplers |-> [k \in Keys |-> NoProc],
                 spawnFailures |-> [k \in Keys |-> NoArray],
                 earlyExitListeners |-> [k \in Keys |-> NoProc],
                 procs |-> <<>>,
                 arrays |-> <<>>]
  /\ regLog = [recorded |-> <<>>, lastSpawn |-> NoSpawn,
               running |-> {}, signalled |-> {}]
  /\ gate = NoGate
  /\ gateEnv = [speaking |-> FALSE, lastCheck |-> NoCheck]
  /\ transcriptSegments = NoRows
  /\ processor = NoProcessor
  /\ ffmpeg = NoResampler
  /\ engines = [map |-> [k \in EngineKeys |-> NoEngine], created |-> <<>>]
  /\ hydration = [bursts |-> <<>>, run |-> NoRun, output |-> NoOutput]
  /\ boot = [pc |-> "start", dbOpen |-> FALSE, crashes |-> 0,
             sessions |-> <<>>, audio_tracks |-> <<>>]
  /\ scenario = [pc |-> "idle", phaseStart |-> NullTime, pauseMs |-> 0,
                 closedAtPause |-> 0, closedAtResume |-> 0]
  /\ starts = [startLocks |-> {}, activeSessions |-> [g \in Guilds |-> NoSession],
               sessions |-> <<>>, connections |-> {}, recorders |-> {},
               calls |-> <<>>]
  /\ usage = [emittedMs |-> 0, spokenMs |-> 0, since |-> NullTime, repeated |-> FALSE]
  /\ stops = [activeSessions |-> [g \in Guilds |-> NoSession],
              sessions |-> <<>>,
              engines |-> [map |-> [k \in EngineKeys |-> NoEngine], created |-> <<>>],
              calls |-> <<>>, shutdown |-> "none"]
  /\ now = StartTime

\* the session's handlers at work on the state, and the state they leave
SessionWorld ==
  [r |-> recorder, bt |-> tracker, s |-> session, reg |-> registry, p |-> processor,
   threw |-> FALSE]

\* an exception that leaves a handler is logged by the process
\* (unhandledRejection) or answered by the command dispatcher, and the state
\* stays as the handler left it
SessionBecomes(w) ==
  /\ recorder' = w.r
  /\ tracker' = w.bt
  /\ registry' = w.reg
  /\ processor' = w.p
  /\ session' = w.s

\* the rows of a run stay within the bounds
SessionFits(w) ==
  /\ Len(w.r.audioTracks) <= MaxSessionTracks
  /\ Len(w.s.participants) <= MaxParticipants

\* the orders in which a collection can hold the users
Orders(userIds) ==
  {order \in UNION {[1..n -> userIds] : n \in {Cardinality(userIds)}} :
     \A i, j \in 1..Len(order) : i # j => order[i] # order[j]}

\* what the session's handlers leave alone with STT disabled
nonHandlerVars == <<muxVars, regLog, gateVars, dbVars, lateVars, now>>

\* /session start arrives: startSession up to the await of
\* guild.members.fetch; the run has one start command, so the start lock is
\* free (concurrent commands are the subject of SpecStart)
SessionCalled ==
  /\ session.startCall = "none"
  /\ session' = [session EXCEPT !.startCall = "fetching"]
  /\ UNCHANGED <<recorder, tracker, nonSessionVars>>

\* the fetch resolved: the invoker's voice channel, the two active-session
\* guards and startLocks.add, up to the await of deferReply
SessionFetched(invoker) ==
  /\ session.startCall = "fetching"
  /\ session' = [session EXCEPT !.startCall =
                    IF invoker \in session.inChannel /\ session.status = "none"
                       /\ ~session.registered
                    THEN "deferring" ELSE "rejected"]
  /\ UNCHANGED <<recorder, tracker, nonSessionVars>>

\* deferReply resolved: the permission pre-checks, now = new Date(),
\* insertSession and joinVoiceChannel, up to the await of entersState
SessionInserted(permitted) ==
  /\ session.startCall = "deferring"
  /\ session' = IF permitted
                THEN [session EXCEPT !.startCall = "entering", !.status = "active",
                                     !.startedAt = now]
                ELSE [session EXCEPT !.startCall = "rejected"]
  /\ UNCHANGED <<recorder, tracker, nonSessionVars>>

\* entersState(connection, Ready, 15_000) settled: resolved before its
\* timeout, or rejected by it.  On the timeout: connection.destroy() and
\* endSession(.., 'error').  Otherwise the recorder and the burst tracker,
\* activeSessions.set, the loop over the members, whose participants rows
\* carry the time taken before insertSession, and, when the loop ends without
\* an exception and STT is disabled, the resync heartbeat
SessionRegistered(members, ready) ==
  /\ session.startCall = "entering"
  /\ ready <=> now < session.startedAt + ENTER_TIMEOUT_MS
  /\ LET entered == [SessionWorld EXCEPT !.bt = NewBurstTracker,
                                         !.s.registered = TRUE,
                                         !.s.startCall = "started"]
         looped == memberLoop(entered, members, session.startedAt, FALSE)
         started == IF ~ready
                    THEN [SessionWorld EXCEPT !.s.status = "error",
                                              !.s.startCall = "failed"]
                    ELSE IF looped.threw THEN looped
                    ELSE [looped EXCEPT !.s.resyncTimer = now + RESYNC_MS]
     IN SessionFits(started) /\ SessionBecomes(started)
  /\ UNCHANGED nonHandlerVars

\* voiceStateUpdate: the user joins the voice channel
Join(u) ==
  /\ u \notin session.inChannel
  /\ LET arrived == [SessionWorld EXCEPT !.s.inChannel = @ \cup {u}]
         handled == /\ session.registered /\ ~session.tearingDown
                    /\ u \notin session.notifiedUsers
                    /\ session.consentRequired => u \in session.consented
         after == IF handled THEN lateJoin(arrived, u, now, FALSE) ELSE arrived
     IN SessionFits(after) /\ SessionBecomes(after)
  /\ UNCHANGED nonHandlerVars

\* voiceStateUpdate: the user leaves the voice channel (handleUserLeave)
Leave(u) ==
  /\ u \in session.inChannel
  /\ LET gone == [SessionWorld EXCEPT !.s.inChannel = @ \ {u}]
     IN SessionBecomes(IF session.registered /\ ~session.tearingDown
                       THEN teardownUserInSession(gone, u, now) ELSE gone)
  /\ UNCHANGED nonHandlerVars

\* /consent toggle: upsertGuildSettings(consentRequired: !isConsentRequired)
ConsentToggle ==
  /\ session' = [session EXCEPT !.consentRequired = ~@]
  /\ UNCHANGED <<recorder, tracker, nonSessionVars>>

\* the /consent commands that are between two of their awaits
pendingConsent == session.replying \cup session.accepting \cup session.revoking

\* /consent accept up to the await of its reply: upsertConsent
ConsentAccept(u) ==
  /\ Cardinality(pendingConsent) < MaxPending
  /\ session' = [session EXCEPT !.consented = @ \cup {u}, !.replying = @ \cup {u}]
  /\ UNCHANGED <<recorder, tracker, nonSessionVars>>

\* /consent accept after the reply: the lookup of the session, up to the
\* await of guild.members.fetch
ConsentAcceptReplied(u) ==
  /\ u \in session.replying
  /\ session' = [session EXCEPT !.replying = @ \ {u},
                                !.accepting = IF session.registered
                                              THEN @ \cup {u} ELSE @]
  /\ UNCHANGED <<recorder, tracker, nonSessionVars>>

\* /consent accept from there on
ConsentAccepted(u) ==
  /\ u \in session.accepting
  /\ LET fetched == [SessionWorld EXCEPT !.s.accepting = @ \ {u}]
         after == handleAccept(fetched, u, now, FALSE)
     IN SessionFits(after) /\ SessionBecomes(after)
  /\ UNCHANGED nonHandlerVars

\* /consent revoke up to its reply: upsertConsent and the read of the
\* guild's setting, which decides whether anything follows the reply
ConsentRevoke(u) ==
  /\ Cardinality(pendingConsent) < MaxPending
  /\ session' = [session EXCEPT !.consented = @ \ {u},
                                !.revoking = IF session.consentRequired
                                             THEN @ \cup {u} ELSE @]
  /\ UNCHANGED <<recorder, tracker, nonSessionVars>>

\* /consent revoke after the reply, consent having been required when the
\* command arrived: teardownUserInSession when a session is active
ConsentRevoked(u) ==
  /\ u \in session.revoking
  /\ LET replied == [SessionWorld EXCEPT !.s.revoking = @ \ {u}]
     IN SessionBecomes(IF session.registered
                       THEN teardownUserInSession(replied, u, now) ELSE replied)
  /\ UNCHANGED nonHandlerVars

\* /consent forget after deferReply: forgetUser
ConsentForget(u) ==
  /\ SessionBecomes(forgetUser(SessionWorld, u))
  /\ UNCHANGED nonHandlerVars

\* the resync heartbeat's callback: the interval is due again a period
\* later, and resyncVoiceMembers runs from its first test of tearingDown to
\* the await of client.guilds.fetch
ResyncFired ==
  /\ session.resyncTimer # NullTime /\ session.resyncTimer <= now
  /\ session' = [session EXCEPT !.resyncTimer = @ + RESYNC_MS,
                                !.resyncing = ~session.tearingDown]
  /\ UNCHANGED <<recorder, tracker, nonSessionVars>>

\* client.guilds.fetch settled: a rejection is caught and logged; otherwise
\* the second test of tearingDown and the two loops over the members that
\* the cache holds by then
Resynced(members, fetched) ==
  /\ session.resyncing
  /\ LET resumed == [SessionWorld EXCEPT !.s.resyncing = FALSE]
         after == IF ~fetched \/ session.tearingDown THEN resumed
                  ELSE resyncVoiceMembers(resumed, members, now, FALSE)
     IN SessionFits(after) /\ SessionBecomes(after)
  /\ UNCHANGED nonHandlerVars

\* receiver.speaking 'start' -> boundOnStart and the listeners of others,
\* which were registered after it: an exception of boundOnStart leaves emit
\* before they are called
SpeakingStart(u) ==
  /\ tracker.listening \/ "sttOnStart" \in tracker.others
  /\ tracker' = IF tracker.destroyed \/ ~tracker.listening
                THEN heardByOthers(tracker, "sttOnStart")
                ELSE IF onSpeakingStartThrows(tracker, recorder, u) THEN tracker
                ELSE heardByOthers(onSpeakingStart(tracker, recorder, u), "sttOnStart")
  /\ UNCHANGED <<recorder, session, nonSessionVars>>

\* receiver.speaking 'end' -> boundOnEnd and the listeners of others
SpeakingEnd(u) ==
  /\ tracker.listening \/ "sttOnEnd" \in tracker.others
  /\ tracker' = heardByOthers(
                  IF tracker.destroyed \/ ~tracker.listening THEN tracker
                  ELSE onSpeakingEnd(tracker, recorder, u), "sttOnEnd")
  /\ UNCHANGED <<recorder, session, nonSessionVars>>

\* a teardown call at one of its awaits, before it has taken its time or
\* with no further use for it
Awaiting(kind, pc) == [kind |-> kind, pc |-> pc, now |-> NullTime]

\* stopSession up to the await of deferReply: the lookup in activeSessions,
\* whose miss is answered at once
StopCalled ==
  /\ Len(session.calls) < MaxStopCalls
  /\ session' = IF session.registered
                THEN [session EXCEPT !.calls = Append(@, Awaiting("stop", "deferring"))]
                ELSE session
  /\ UNCHANGED <<recorder, tracker, nonSessionVars>>

\* deferReply resolved: now = new Date(), session.tearingDown = true and
\* clearInterval, up to the await of releaseSessionEngine(session), which
\* has nothing to release without an SttProcessor
StopDeferred(c) ==
  /\ c \in 1..Len(session.calls) /\ session.calls[c].pc = "deferring"
  /\ session.calls[c].kind = "stop"
  /\ session' = [session EXCEPT !.calls[c] = [kind |-> "stop", pc |-> "releasing",
                                              now |-> now],
                                !.tearingDown = TRUE,
                                !.resyncTimer = NullTime]
  /\ UNCHANGED <<recorder, tracker, nonSessionVars>>

\* stopSession from the kill loop to endSession(.., 'stopped') and the await
\* of restoreNickname
StopTornDown(c) ==
  /\ c \in 1..Len(session.calls) /\ session.calls[c].pc = "releasing"
  /\ session.calls[c].kind = "stop"
  /\ SessionBecomes(stopTeardown([SessionWorld EXCEPT !.s.calls[c] = Awaiting("stop", "ended")],
                                 session.calls[c].now))
  /\ UNCHANGED nonHandlerVars

\* restoreNickname and unpinStatusMessage settled: the finally's
\* activeSessions.delete(guild.id)
StopFinished(c) ==
  /\ c \in 1..Len(session.calls) /\ session.calls[c].pc = "ended"
  /\ session.calls[c].kind = "stop"
  /\ session' = [session EXCEPT !.calls[c].pc = "done", !.registered = FALSE]
  /\ UNCHANGED <<recorder, tracker, nonSessionVars>>

\* the voice connection is lost for good, or the bot is moved out of the
\* channel: forceEndSession up to the await of releaseSessionEngine(session);
\* without a session in activeSessions it returns
ForceEndCalled ==
  /\ Len(session.calls) < MaxStopCalls
  /\ session' = IF session.registered
                THEN [session EXCEPT !.calls = Append(@, [kind |-> "force",
                                                          pc |-> "releasing",
                                                          now |-> now]),
                                     !.tearingDown = TRUE,
                                     !.resyncTimer = NullTime]
                ELSE session
  /\ UNCHANGED <<recorder, tracker, nonSessionVars>>

\* forceEndSession from the kill loop to endSession(.., 'error') and the
\* await of client.guilds.fetch
ForceEndTornDown(c) ==
  /\ c \in 1..Len(session.calls) /\ session.calls[c].pc = "releasing"
  /\ session.calls[c].kind = "force"
  /\ SessionBecomes(forceEndTeardown([SessionWorld EXCEPT !.s.calls[c] = Awaiting("force", "ended")],
                                     session.calls[c].now))
  /\ UNCHANGED nonHandlerVars

\* the indicators and notifyDisconnect settled: the finally's
\* activeSessions.delete(guildId)
ForceEndFinished(c) ==
  /\ c \in 1..Len(session.calls) /\ session.calls[c].pc = "ended"
  /\ session.calls[c].kind = "force"
  /\ session' = [session EXCEPT !.calls[c].pc = "done", !.registered = FALSE]
  /\ UNCHANGED <<recorder, tracker, nonSessionVars>>

\* gracefulShutdown (once per process: isShuttingDown) calls
\* shutdownAllSessions: ffmpegRegistry.killAll(), then the callback of every
\* entry of activeSessions up to the await of releaseSessionEngine(session);
\* with no entry the call goes on to await Promise.allSettled([])
ShutdownCalled ==
  /\ Len(session.calls) < MaxStopCalls
  /\ LET killed == [SessionWorld EXCEPT !.reg = registryKillAll(registry)] IN
     SessionBecomes(
       IF session.registered
       THEN [killed EXCEPT !.s.calls = Append(@, [kind |-> "shutdown",
                                                  pc |-> "releasing", now |-> now]),
                           !.s.tearingDown = TRUE,
                           !.s.resyncTimer = NullTime]
       ELSE [killed EXCEPT !.s.calls = Append(@, Awaiting("shutdown", "settling"))])
  /\ UNCHANGED nonHandlerVars

\* the callback from burstTracker.destroy() to the loop over the
\* participants, up to the await of client.guilds.fetch
ShutdownTornDown(c) ==
  /\ c \in 1..Len(session.calls) /\ session.calls[c].pc = "releasing"
  /\ session.calls[c].kind = "shutdown"
  /\ SessionBecomes(shutdownTeardown([SessionWorld EXCEPT !.s.calls[c] = Awaiting("shutdown", "fetching")],
                                     session.calls[c].now))
  /\ UNCHANGED nonHandlerVars

\* the indicators settled, or their failure was caught:
\* session.connection.destroy() and endSession(.., 'stopped'); the callback's
\* promise is settled
ShutdownEnded(c) ==
  /\ c \in 1..Len(session.calls) /\ session.calls[c].pc = "fetching"
  /\ session' = [session EXCEPT !.calls[c].pc = "settling", !.status = "stopped"]
  /\ UNCHANGED <<recorder, tracker, nonSessionVars>>

\* Promise.allSettled resolved: activeSessions.clear(), whatever the map
\* holds by then
ShutdownSettled(c) ==
  /\ c \in 1..Len(session.calls) /\ session.calls[c].pc = "settling"
  /\ session' = [session EXCEPT !.calls[c].pc = "done", !.registered = FALSE]
  /\ UNCHANGED <<recorder, tracker, nonSessionVars>>

\* time passes, by a millisecond or by the heartbeat's period; the instants
\* of a run are at most MaxJitterMs after a multiple of the period
SessionTick(step) ==
  /\ now + step <= StartTime + MaxSessionMs
  /\ (now + step - StartTime) % RESYNC_MS <= MaxJitterMs
  /\ session.resyncTimer # NullTime => now + step <= session.resyncTimer
  /\ now' = now + step
  /\ UNCHANGED <<sessionVars, muxVars, regVars, gateVars, otherVars>>

SessionSteps == {1, RESYNC_MS}

Next ==
  \/ SessionCalled
  \/ \E invoker \in Users : SessionFetched(invoker)
  \/ \E permitted \in BOOLEAN : SessionInserted(permitted)
  \/ \E members \in Orders(session.inChannel), ready \in BOOLEAN :
        SessionRegistered(members, ready)
  \/ \E u \in Users : Join(u)
  \/ \E u \in Users : Leave(u)
  \/ ConsentToggle
  \/ \E u \in Users : ConsentAccept(u)
  \/ \E u \in Users : ConsentAcceptReplied(u)
  \/ \E u \in Users : ConsentAccepted(u)
  \/ \E u \in Users : ConsentRevoke(u)
  \/ \E u \in Users : ConsentRevoked(u)
  \/ \E u \in Users : ConsentForget(u)
  \/ ResyncFired
  \/ \E members \in Orders(session.inChannel), fetched \in BOOLEAN :
        Resynced(members, fetched)
  \/ \E u \in Users : SpeakingStart(u)
  \/ \E u \in Users : SpeakingEnd(u)
  \/ StopCalled
  \/ \E c \in 1..MaxStopCalls : StopDeferred(c)
  \/ \E c \in 1..MaxStopCalls : StopTornDown(c)
  \/ \E c \in 1..MaxStopCalls : StopFinished(c)
  \/ ForceEndCalled
  \/ \E c \in 1..MaxStopCalls : ForceEndTornDown(c)
  \/ \E c \in 1..MaxStopCalls : ForceEndFinished(c)
  \/ ShutdownCalled
  \/ \E c \in 1..MaxStopCalls : ShutdownTornDown(c)
  \/ \E c \in 1..MaxStopCalls : ShutdownEnded(c)
  \/ \E c \in 1..MaxStopCalls : ShutdownSettled(c)
  \/ \E step \in SessionSteps : SessionTick(step)

Spec == Init /\ [][Next]_vars

\* ------------------------------------------------- stand-alone OggMuxer
MaxMuxFrames == 3

\* Frame lengths around the 255-byte lacing boundary.
FrameLens == {0, 1, 254, 255, 256, 510}

\* The bytes of a frame of the given length; the seed makes frames differ.
FrameBytes(len, seed) == [i \in 1..len |-> (i * 7 + seed * 31) % 256]

\* the frame sequences handed to a muxer
FrameSeqs ==
  UNION {{[i \in 1..n |-> FrameBytes(lens[i], i)] : lens \in [1..n -> FrameLens]} :
           n \in 0..MaxMuxFrames}

\* muxer.writeOpusPacket(frame) for the frames in turn
RECURSIVE writeFrames(_, _)
writeFrames(m, frames) ==
  IF frames = <<>> THEN m
  ELSE writeFrames(writeOpusPacket(m, Head(frames)), Tail(frames))

\* const muxer = new OggMuxer(sink); writeOpusPacket for every frame;
\* finalize(). The exception of the constructor ends the run.
MuxFrames(frames) ==
  /\ ~muxed.attempted
  /\ mux' = IF NewOggMuxer.threw THEN NewOggMuxer
            ELSE finalize(writeFrames(NewOggMuxer, frames))
  /\ muxed' = [frames |-> frames, attempted |-> TRUE]
  /\ UNCHANGED nonMuxVars

NextMux ==
  \E frames \in FrameSeqs : MuxFrames(frames)

SpecMux == Init /\ [][NextMux]_vars

\* ------------------------------------------------ registry operations
MaxSpawns == 4
\* The instants at which things happen: they land on both sides of the
\* 2 s early-exit limit and of the 60 s breaker window.
Instants == {StartTime + 2000, StartTime + 58000, StartTime + 60000}

RegTick ==
  /\ \E t \in Instants : t > now /\ now' = t
  /\ UNCHANGED <<sessionVars, muxVars, regVars, gateVars, otherVars>>

\* The early exits recorded for key whose age at time t is inside the window.
RecentRecorded(key, t) ==
  Cardinality({i \in 1..Len(regLog.recorded) :
                 /\ regLog.recorded[i].key = key
                 /\ t - regLog.recorded[i].at < BREAKER_WINDOW_MS})

\* The resamplers whose kill() went past its alive test between reg and
\* after: their child processes were sent SIGTERM.
Signalled(reg, after) ==
  {p \in 1..Len(reg.procs) : reg.procs[p].alive /\ ~after.procs[p].alive}

\* ffmpegRegistry.spawn(userId, sessionId): a spawn that is not refused
\* starts a child process
RegSpawn(key) ==
  /\ Len(registry.arrays) < MaxSpawns
  /\ registry' = spawn(registry, key, now)
  /\ regLog' = [regLog EXCEPT
        !.lastSpawn =
           [key |-> key, recent |-> RecentRecorded(key, now),
            result |-> IF Len(registry'.procs) > Len(registry.procs)
                       THEN "spawned" ELSE "refused"],
        !.running = @ \cup (1..Len(registry'.procs) \ 1..Len(registry.procs)),
        !.signalled = @ \cup Signalled(registry, registry')]
  /\ UNCHANGED nonRegVars

\* ffmpegRegistry.kill(userId, sessionId)
RegKill(key) ==
  /\ registry' = killByKey(registry, key)
  /\ regLog' = [regLog EXCEPT !.signalled = @ \cup Signalled(registry, registry')]
  /\ UNCHANGED nonRegVars

\* ffmpegRegistry.killAll()
RegKillAll ==
  /\ registry' = registryKillAll(registry)
  /\ regLog' = [regLog EXCEPT !.signalled = @ \cup Signalled(registry, registry')]
  /\ UNCHANGED nonRegVars

\* ffmpegRegistry.get(userId, sessionId)
RegGet(key) ==
  /\ registry' = registryGet(registry, key)
  /\ UNCHANGED <<regLog, nonRegVars>>

\* The child process of a live resampler p exits on its own: the 'exit'
\* listener marks the resampler dead.
ProcExit(p) ==
  /\ p \in 1..Len(registry.procs)
  /\ registry.procs[p].alive
  /\ registry' = [registry EXCEPT !.procs[p].alive = FALSE]
  /\ regLog' = [regLog EXCEPT !.running = @ \ {p}]
  /\ UNCHANGED nonRegVars

\* The child process of a resampler that is already marked dead exits: after
\* the SIGTERM of kill(), or some time after it closed its stdin.
ProcGone(p) ==
  /\ p \in 1..Len(registry.procs)
  /\ ~registry.procs[p].alive /\ p \in regLog.running
  /\ regLog' = [regLog EXCEPT !.running = @ \ {p}]
  /\ UNCHANGED <<registry, nonRegVars>>

\* The child of resampler p has closed its stdin and a write fails with
\* EPIPE: the stdin 'error' listener marks the resampler dead, and the
\* process keeps running.
ProcEpipe(p) ==
  /\ p \in 1..Len(registry.procs)
  /\ registry.procs[p].alive
  /\ registry' = [registry EXCEPT !.procs[p].alive = FALSE]
  /\ UNCHANGED <<regLog, nonRegVars>>

\* The 'close' event of resampler p's pcmOutput: it runs the once-listener
\* onEarlyExit when that is still attached (without it the event does nothing).
PcmClose(p) ==
  /\ p \in 1..Len(registry.procs)
  /\ registry.procs[p].closeListener
  /\ registry' = onEarlyExit([registry EXCEPT !.procs[p].closeListener = FALSE], p, now)
  /\ regLog' = IF now - registry.procs[p].spawnTime < EARLY_EXIT_MS
               THEN [regLog EXCEPT !.recorded =
                       Append(@, [key |-> registry.procs[p].key, at |-> now])]
               ELSE regLog
  /\ UNCHANGED nonRegVars

\* the key the registry alone is exercised with
RegistryKeys == {makeKey("s1", "u1")}

NextRegistry ==
  \/ RegTick
  \/ \E k \in RegistryKeys : RegSpawn(k)
  \/ \E k \in RegistryKeys : RegKill(k)
  \/ RegKillAll
  \/ \E k \in RegistryKeys : RegGet(k)
  \/ \E p \in 1..MaxSpawns : ProcExit(p)
  \/ \E p \in 1..MaxSpawns : ProcGone(p)
  \/ \E p \in 1..MaxSpawns : ProcEpipe(p)
  \/ \E p \in 1..MaxSpawns : PcmClose(p)

SpecRegistry == Init /\ [][NextRegistry]_vars

\* ------------------------------------------------------ gate operations
TickMs == 10000
MaxGateTicks == 4
MaxStreams == 3
MaxLeakedTimers == 1

\* a timer runs once its delay has passed
Due(kind) == {tm \in gate.timers : tm.kind = kind /\ tm.due <= now}

\* Time passes, but not past a timer that is due.
GateTickUpTo(maxTicks) ==
  /\ gate.constructed
  /\ now + TickMs <= StartTime + maxTicks * TickMs
  /\ \A tm \in gate.timers : tm.due > now
  /\ now' = now + TickMs
  /\ gate' = IF gateEnv.speaking
             THEN [gate EXCEPT !.speechSinceReset = @ + TickMs] ELSE gate
  /\ UNCHANGED <<gateEnv, sessionVars, muxVars, regVars, otherVars>>

GateTick == GateTickUpTo(MaxGateTicks)

GateCreate(config) ==
  /\ ~gate.constructed
  /\ gate' = NewVadGate(config)
  /\ UNCHANGED <<gateEnv, nonGateVars>>

CanCreateStream == Len(gate.streams) < MaxStreams
\* pending timers whose handle the gate no longer holds
leakedTimers(g) ==
  g.timers \ {g.silenceTimer, g.cooldownReopenTimer, g.rotationCheckTimer,
              g.rotationTimer}
\* the step leaves the leaked timers within the bound
LeakBounded == Cardinality(leakedTimers(gate')) <= MaxLeakedTimers

\* what a rotation check had before it and what it did
CheckResult(g, after) ==
  [crossed |-> ~g.destroyed /\ g.speechSinceReset >= g.config.rotationMs
                 /\ isOpen(g, g.currentStream),
   rotations |-> after.rotations - g.rotations]

\* receiver.speaking 'start' for the gate's user
GateSpeakingStart ==
  /\ gate.constructed /\ ~gateEnv.speaking /\ CanCreateStream
  /\ gate' = gateOnSpeakingStart(gate, now)
  /\ gateEnv' = [gateEnv EXCEPT !.speaking = TRUE]
  /\ LeakBounded
  /\ UNCHANGED nonGateVars

\* receiver.speaking 'end' for the gate's user
GateSpeakingEnd ==
  /\ gate.constructed /\ gateEnv.speaking /\ CanCreateStream
  /\ gate' = gateOnSpeakingEnd(gate, now)
  /\ gateEnv' = [speaking |-> FALSE, lastCheck |-> CheckResult(gate, gate')]
  /\ LeakBounded
  /\ UNCHANGED nonGateVars

\* the 30 s interval of onSpeakingStart fires and is armed again
RotationCheckTick ==
  /\ CanCreateStream
  /\ \E tm \in Due("check") :
       LET next == [tm EXCEPT !.due = tm.due + checkIntervalMs]
           armed == [gate EXCEPT !.timers = (@ \ {tm}) \cup {next},
                                 !.rotationCheckTimer = IF @ = tm THEN next ELSE @]
       IN /\ gate' = rotationCheck(armed, now)
          /\ gateEnv' = [gateEnv EXCEPT !.lastCheck = CheckResult(gate, gate')]
  /\ LeakBounded
  /\ UNCHANGED nonGateVars

SilenceTimeout ==
  /\ \E tm \in Due("silence") :
       gate' = closeCurrentStream(clearTimer(gate, tm), now)
  /\ UNCHANGED <<gateEnv, nonGateVars>>

CooldownReopen ==
  /\ CanCreateStream
  /\ \E tm \in Due("cooldownReopen") : gate' = cooldownReopen(clearTimer(gate, tm))
  /\ UNCHANGED <<gateEnv, nonGateVars>>

CloseReopen ==
  /\ CanCreateStream
  /\ \E tm \in Due("closeReopen") : gate' = closeReopen(clearTimer(gate, tm))
  /\ UNCHANGED <<gateEnv, nonGateVars>>

RotationTimeout ==
  /\ \E tm \in Due("rotation") : gate' = rotationTimeout(clearTimer(gate, tm))
  /\ UNCHANGED <<gateEnv, nonGateVars>>

\* recognizeStream 'error' of stream s: _open = false, then onClose.  emitted
\* is the last event the recognize stream has sent.
StreamError(s) ==
  /\ s \in 1..Len(gate.streams)
  /\ gate.streams[s].emitted = "none"
  /\ gate' = onClose([gate EXCEPT !.streams[s].open = FALSE,
                                  !.streams[s].emitted = "error"], now)
  /\ LeakBounded
  /\ UNCHANGED <<gateEnv, nonGateVars>>

\* recognizeStream 'end' of stream s, after an 'error' or without one ('end'
\* also follows the stream's own close()): _open = false, then onClose again.
StreamEnd(s) ==
  /\ s \in 1..Len(gate.streams)
  /\ gate.streams[s].emitted # "end"
  /\ gate' = onClose([gate EXCEPT !.streams[s].open = FALSE,
                                  !.streams[s].emitted = "end"], now)
  /\ LeakBounded
  /\ UNCHANGED <<gateEnv, nonGateVars>>

\* boundPcmHandler: the PCM chunk goes to the open current and rotating
\* streams; a write that throws leaves its stream not open (failed).
PcmData(failed) ==
  /\ gate.constructed /\ ~gate.destroyed
  /\ failed \subseteq pcmTargets(gate)
  /\ failed # {}
  /\ gate' = [gate EXCEPT !.streams =
        [s \in 1..Len(gate.streams) |->
           IF s \in failed THEN [gate.streams[s] EXCEPT !.open = FALSE]
           ELSE gate.streams[s]]]
  /\ UNCHANGED <<gateEnv, nonGateVars>>

GateDestroy ==
  /\ gate.constructed /\ ~gate.destroyed
  /\ gate' = gateDestroy(gate)
  /\ UNCHANGED <<gateEnv, nonGateVars>>

NextGate ==
  \/ \E config \in GateConfigs : GateCreate(config)
  \/ GateTick
  \/ GateSpeakingStart
  \/ GateSpeakingEnd
  \/ RotationCheckTick
  \/ SilenceTimeout
  \/ CooldownReopen
  \/ CloseReopen
  \/ RotationTimeout
  \/ \E s \in 1..MaxStreams : StreamError(s)
  \/ \E s \in 1..MaxStreams : StreamEnd(s)
  \/ \E failed \in SUBSET (1..MaxStreams) : PcmData(failed)
  \/ GateDestroy

SpecGate == Init /\ [][NextGate]_vars

\* ------------------------------------ gate under any order of its calls
MaxApiTicks == 1

\* onSpeakingStart() called again with no onSpeakingEnd() in between
GateSpeakingStartAgain ==
  /\ gate.constructed /\ gateEnv.speaking /\ CanCreateStream
  /\ gate' = gateOnSpeakingStart(gate, now)
  /\ LeakBounded
  /\ UNCHANGED <<gateEnv, nonGateVars>>

\* onSpeakingEnd() called again with no onSpeakingStart() in between
GateSpeakingEndAgain ==
  /\ gate.constructed /\ ~gateEnv.speaking /\ CanCreateStream
  /\ gate' = gateOnSpeakingEnd(gate, now)
  /\ gateEnv' = [gateEnv EXCEPT !.lastCheck = CheckResult(gate, gate')]
  /\ LeakBounded
  /\ UNCHANGED nonGateVars

\* The rotation check (checkIntervalMs after a speaking start) and the end of
\* an overlap window (after rotationMs of speech) come due later than the time
\* this specification covers; GateTickUpTo never passes a timer that is due.
NextGateApi ==
  \/ \E config \in GateConfigs : GateCreate(config)
  \/ GateTickUpTo(MaxApiTicks)
  \/ GateSpeakingStart
  \/ GateSpeakingEnd
  \/ GateSpeakingStartAgain
  \/ GateSpeakingEndAgain
  \/ SilenceTimeout
  \/ CooldownReopen
  \/ CloseReopen
  \/ \E s \in 1..MaxStreams : StreamError(s)
  \/ \E s \in 1..MaxStreams : StreamEnd(s)
  \/ \E failed \in SUBSET (1..MaxStreams) : PcmData(failed)
  \/ GateDestroy

SpecGateApi == Init /\ [][NextGateApi]_vars

\* --------------------------------------------- gate's speech accounting
MaxUsageTicks == 3

\* usageTracker.addSpeechDuration(durationMs) for an emitted value
addSpeechDuration(u, durationMs) == [u EXCEPT !.emittedMs = @ + durationMs]

\* the speaker stops (speaking end, or the gate is destroyed): the interval
\* since the speaking start is over
intervalOver(u, t) ==
  [u EXCEPT !.spokenMs = IF u.since # NullTime THEN @ + (t - u.since) ELSE @,
            !.since = NullTime]

\* receiver.speaking 'start' for the gate's user
UsageSpeakingStart ==
  /\ gate.constructed /\ ~gateEnv.speaking /\ CanCreateStream
  /\ gate' = gateOnSpeakingStart(gate, now)
  /\ gateEnv' = [gateEnv EXCEPT !.speaking = TRUE]
  /\ usage' = [usage EXCEPT !.since = IF gate.destroyed THEN NullTime ELSE now]
  /\ LeakBounded
  /\ UNCHANGED nonUsageVars

\* onSpeakingStart() called again with no onSpeakingEnd() in between
UsageSpeakingStartAgain ==
  /\ gate.constructed /\ gateEnv.speaking /\ CanCreateStream
  /\ gate' = gateOnSpeakingStart(gate, now)
  /\ usage' = [usage EXCEPT !.repeated = TRUE]
  /\ LeakBounded
  /\ UNCHANGED <<gateEnv, nonUsageVars>>

\* receiver.speaking 'end' for the gate's user
UsageSpeakingEnd ==
  /\ gate.constructed /\ gateEnv.speaking /\ CanCreateStream
  /\ gate' = gateOnSpeakingEnd(gate, now)
  /\ gateEnv' = [speaking |-> FALSE, lastCheck |-> CheckResult(gate, gate')]
  /\ usage' = intervalOver(addSpeechDuration(usage, speechDurationAtEnd(gate, now)), now)
  /\ LeakBounded
  /\ UNCHANGED nonUsageVars

\* onSpeakingEnd() called again with no onSpeakingStart() in between
UsageSpeakingEndAgain ==
  /\ gate.constructed /\ ~gateEnv.speaking /\ CanCreateStream
  /\ gate' = gateOnSpeakingEnd(gate, now)
  /\ gateEnv' = [gateEnv EXCEPT !.lastCheck = CheckResult(gate, gate')]
  /\ usage' = addSpeechDuration(usage, speechDurationAtEnd(gate, now))
  /\ LeakBounded
  /\ UNCHANGED nonUsageVars

\* the 30 s interval of onSpeakingStart fires and is armed again
UsageRotationCheck ==
  /\ CanCreateStream
  /\ \E tm \in Due("check") :
       LET next == [tm EXCEPT !.due = tm.due + checkIntervalMs]
           armed == [gate EXCEPT !.timers = (@ \ {tm}) \cup {next},
                                 !.rotationCheckTimer = IF @ = tm THEN next ELSE @]
       IN /\ gate' = rotationCheck(armed, now)
          /\ gateEnv' = [gateEnv EXCEPT !.lastCheck = CheckResult(gate, gate')]
          /\ usage' = addSpeechDuration(usage, speechDurationAtCheck(armed, now))
  /\ LeakBounded
  /\ UNCHANGED nonUsageVars

\* destroy(): the gate's user is removed or the processor is destroyed
UsageDestroy ==
  /\ gate.constructed /\ ~gate.destroyed
  /\ gate' = gateDestroy(gate)
  /\ usage' = intervalOver(addSpeechDuration(usage, speechDurationAtDestroy(gate, now)), now)
  /\ UNCHANGED <<gateEnv, nonUsageVars>>

NextUsage ==
  \/ \E config \in GateConfigs : GateCreate(config)
  \/ GateTickUpTo(MaxUsageTicks)
  \/ UsageSpeakingStart
  \/ UsageSpeakingStartAgain
  \/ UsageSpeakingEnd
  \/ UsageSpeakingEndAgain
  \/ UsageRotationCheck
  \/ SilenceTimeout
  \/ CooldownReopen
  \/ CloseReopen
  \/ RotationTimeout
  \/ \E s \in 1..MaxStreams : StreamError(s)
  \/ \E s \in 1..MaxStreams : StreamEnd(s)
  \/ UsageDestroy

SpecUsage == Init /\ [][NextUsage]_vars

\* ------------------------------------------- gate with transcript results
MaxTranscriptTicks == 3

\* segmentStart values on both sides of the 2 s window
SegmentStarts == {StartTime + 1000, StartTime + 3000, StartTime + 4000}

\* recognizeStream 'data' of stream s: one result reaches handleTranscript.
\* Results keep arriving after close() until the stream's 'end'.
GateTranscript(s, segmentStart) ==
  /\ s \in 1..Len(gate.streams)
  /\ gate.streams[s].emitted = "none"
  /\ gate' = handleTranscript(gate,
        [streamSequence |-> gate.streams[s].streamSequence,
         segmentStart |-> segmentStart, old |-> FALSE])
  /\ UNCHANGED <<gateEnv, nonGateVars>>

NextTranscript ==
  \/ \E config \in GateConfigs : GateCreate(config)
  \/ GateTickUpTo(MaxTranscriptTicks)
  \/ GateSpeakingStart
  \/ GateSpeakingEnd
  \/ RotationCheckTick
  \/ RotationTimeout
  \/ \E s \in 1..MaxStreams : StreamError(s)
  \/ \E s \in 1..MaxStreams : StreamEnd(s)
  \/ \E s \in 1..MaxStreams, t \in SegmentStarts : GateTranscript(s, t)

SpecTranscript == Init /\ [][NextTranscript]_vars

\* ----------------------------------------------- transcript table writes
MaxSegmentRows == 2
\* rows ever inserted into audio_tracks and audio_speech_bursts, together
MaxParentRows == 2
MaxDbWrites == 2
\* the time between a write and its repetition
DbTickMs == 1000

\* the sessions and users of the database, and the names /speaker sets
DbSessions == {"s1", "s2"}
DbUsers == {"u1", "u2"}
DisplayNames == {"Ann"}

\* The user whose track TranscriptWriter has registered under an event's
\* userId: the diarized engine emits "diarized:<gmUserId>", and
\* setUserTrackId registers the GM's track under that key as well.
Diarized(userId) == "diarized:" \o userId
TrackOwner(userId) == IF userId = Diarized("u1") THEN "u1" ELSE userId

\* the segments TranscriptWriter.write hands to insertTranscriptSegment: with
\* a result id, of a speaker on one or two streams and of the diarized engine
\* on the speaker's track, and one without a result id; a final carries the
\* burst found for it, if any, and the speaker label, an interim neither
SegmentSpeakers == {<<"u1", 1>>, <<"u1", 2>>, <<Diarized("u1"), 1>>}
Segments ==
  { [sessionId |-> "s1", trackId |-> trackId, userId |-> sp[1],
     burstId |-> IF f THEN burstId ELSE NullInt,
     displayName |-> NullText,
     speakerLabel |-> IF f THEN "S1" ELSE NullText,
     segmentStart |-> StartTime,
     segmentEnd |-> IF f THEN StartTime + 1000 ELSE NullInt,
     transcript |-> IF f THEN "hi there" ELSE "hi",
     confidence |-> IF f THEN 9 ELSE NullInt,
     isFinal |-> f, sttResultId |-> "5_0", streamSequence |-> sp[2]] :
    sp \in SegmentSpeakers, f \in BOOLEAN, trackId \in 1..MaxParentRows,
    burstId \in 1..MaxParentRows \cup {NullInt} }
  \cup
  { [sessionId |-> "s1", trackId |-> trackId, userId |-> "u1",
     burstId |-> NullInt, displayName |-> NullText, speakerLabel |-> NullText,
     segmentStart |-> StartTime, segmentEnd |-> NullInt,
     transcript |-> "hi", confidence |-> NullInt,
     isFinal |-> FALSE, sttResultId |-> NullText, streamSequence |-> 1] :
    trackId \in 1..MaxParentRows }

\* What TranscriptWriter.write can pass: the track id that was registered
\* for the event's user, which insertAudioTrack returned for that user in the
\* writer's session, and no burst or one that findBurstForTimestamp found
\* for that track; the writer keeps both after the rows are deleted.
Written(db, segment) ==
  /\ segment.trackId \in 1..Len(db.audio_tracks)
  /\ db.audio_tracks[segment.trackId].session_id = segment.sessionId
  /\ db.audio_tracks[segment.trackId].user_id = TrackOwner(segment.userId)
  /\ segment.burstId # NullInt =>
        /\ segment.burstId \in 1..Len(db.audio_speech_bursts)
        /\ db.audio_speech_bursts[segment.burstId].track_id = segment.trackId

\* insertSession for a session that has no row yet
DbInsertSession(sessionId) ==
  /\ sessionId \notin transcriptSegments.sessions
  /\ transcriptSegments' = [transcriptSegments EXCEPT !.sessions = @ \cup {sessionId}]
  /\ UNCHANGED nonDbVars

ParentRows(db) == Len(db.audio_tracks) + Len(db.audio_speech_bursts)

\* insertAudioTrack of subscribeUser, for a session that has its row
DbInsertTrack(sessionId, userId) ==
  /\ ParentRows(transcriptSegments) < MaxParentRows
  /\ sessionId \in transcriptSegments.sessions
  /\ transcriptSegments' = [transcriptSegments EXCEPT !.audio_tracks =
        Append(@, [session_id |-> sessionId, user_id |-> userId, deleted |-> FALSE])]
  /\ UNCHANGED nonDbVars

\* insertBurst of the burst tracker, for a track that has its row
DbInsertBurst(trackId) ==
  /\ ParentRows(transcriptSegments) < MaxParentRows
  /\ hasTrack(transcriptSegments, trackId)
  /\ transcriptSegments' = [transcriptSegments EXCEPT !.audio_speech_bursts =
        Append(@, [track_id |-> trackId, deleted |-> FALSE])]
  /\ UNCHANGED nonDbVars

\* TranscriptWriter.write: insertTranscriptSegment, which may throw
DbWrite(segment) ==
  LET after == insertTranscriptSegment(transcriptSegments, segment, now) IN
  /\ Written(transcriptSegments, segment)
  /\ transcriptSegments.seq < MaxDbWrites
  /\ Len(after.rows) <= MaxSegmentRows
  /\ transcriptSegments' = after
  /\ UNCHANGED nonDbVars

\* the speaker-mapping command: updateDisplayNameBySpeakerLabel
DbRename(sessionId, speakerLabel, displayName) ==
  /\ transcriptSegments' = updateDisplayNameBySpeakerLabel(
                              transcriptSegments, sessionId, speakerLabel,
                              displayName, now)
  /\ UNCHANGED nonDbVars

\* /consent forget: deleteUserDataInGuild, the guild holding the sessions
DbForget(guildSessions, userId) ==
  /\ transcriptSegments' = deleteUserDataInGuild(transcriptSegments, guildSessions, userId)
  /\ UNCHANGED nonDbVars

\* the retention purge of a session: deleteSessionCascade
DbPurge(sessionId) ==
  /\ transcriptSegments' = deleteSessionCascade(transcriptSegments, sessionId)
  /\ UNCHANGED nonDbVars

NextDb ==
  \/ DbInsertSession("s1")
  \/ DbInsertTrack("s1", "u1")
  \/ \E trackId \in 1..MaxParentRows : DbInsertBurst(trackId)
  \/ \E segment \in Segments : DbWrite(segment)
  \/ \E sessionId \in DbSessions, displayName \in DisplayNames :
        DbRename(sessionId, "S1", displayName)
  \/ \E guildSessions \in {<<"s1">>, <<"s2">>, <<"s1", "s2">>}, userId \in DbUsers :
        DbForget(guildSessions, userId)
  \/ \E sessionId \in DbSessions : DbPurge(sessionId)

SpecDb == Init /\ [][NextDb]_vars

\* -------------------------------------------- SttProcessor operations
MaxGates == 3
\* spawn calls of the registry under the processor
MaxSttSpawns == 4

\* config.stt.maxConcurrentStreams as config.json sets it
StreamCaps == {1, 2}

World == [p |-> processor, reg |-> registry]

Becomes(w) == processor' = w.p /\ registry' = w.reg

\* the gates and the spawn calls stay within the bounds b
Fits(w, b) ==
  /\ Len(w.p.heap) <= b.gates /\ Len(w.reg.arrays) <= b.spawns

\* new SttProcessor(engine, config.stt, sessionId)
SttCreate(maxConcurrentStreams) ==
  /\ ~processor.constructed
  /\ processor' = NewSttProcessor(maxConcurrentStreams)
  /\ UNCHANGED <<regVars, nonSttVars>>

\* ffmpegRegistry.spawn(userId, sessionId) for a speaker of the session
SttSpawn(u, b) ==
  LET w == [World EXCEPT !.reg = spawn(registry, makeKey("s1", u), now)] IN
  /\ Fits(w, b)
  /\ Becomes(w)
  /\ UNCHANGED <<regLog, nonSttVars>>

\* ffmpegRegistry.kill(userId, sessionId) for a speaker of the session
SttKill(u) ==
  /\ registry' = killByKey(registry, makeKey("s1", u))
  /\ UNCHANGED <<processor, regLog, nonSttVars>>

\* sttProcessor.addUser(userId)
SttAddUser(u, b) ==
  /\ processor.constructed
  /\ Fits(addUser(World, u), b)
  /\ Becomes(addUser(World, u))
  /\ UNCHANGED <<regLog, nonSttVars>>

\* sttProcessor.removeUser(userId)
SttRemoveUser(u) ==
  /\ processor.constructed
  /\ processor' = removeUser(processor, u)
  /\ UNCHANGED <<regVars, nonSttVars>>

\* sttProcessor.onSpeakingStart(userId)
SttSpeakingStart(u, b) ==
  /\ processor.constructed
  /\ Fits(processorOnSpeakingStart(World, u, now), b)
  /\ Becomes(processorOnSpeakingStart(World, u, now))
  /\ UNCHANGED <<regLog, nonSttVars>>

\* sttProcessor.destroy()
SttDestroy ==
  /\ processor.constructed /\ ~processor.destroyed
  /\ processor' = processorDestroy(processor)
  /\ UNCHANGED <<regVars, nonSttVars>>

\* One speaker's gate under every call of the processor and of the registry
\* and under the deaths of the speaker's resamplers; alone, the speaker never
\* meets the cap. The end of speech and the cap are exercised by SpecGate and
\* SpecSttCap.
Speakers == {"u1"}
SttBounds == [gates |-> MaxGates, spawns |-> MaxSttSpawns]

NextStt ==
  \/ SttCreate(DefaultStreamCap)
  \/ \E u \in Speakers : SttSpawn(u, SttBounds)
  \/ \E u \in Speakers : SttKill(u)
  \/ \E u \in Speakers : SttAddUser(u, SttBounds)
  \/ \E u \in Speakers : SttRemoveUser(u)
  \/ \E u \in Speakers : SttSpeakingStart(u, SttBounds)
  \/ SttDestroy
  \/ \E k \in Keys : RegGet(k)
  \/ \E p \in 1..MaxSttSpawns : ProcExit(p)
  \/ \E p \in 1..MaxSttSpawns : PcmClose(p)

SpecStt == Init /\ [][NextStt]_vars

\* Every user of the session competing for the processor's gates, under
\* spawn, kill, addUser, removeUser, speaking events and resampler deaths.
MaxCapGates == 2
MaxCapSpawns == 2
CapBounds == [gates |-> MaxCapGates, spawns |-> MaxCapSpawns]

NextSttCap ==
  \/ \E maxConcurrentStreams \in StreamCaps : SttCreate(maxConcurrentStreams)
  \/ \E u \in Users : SttSpawn(u, CapBounds)
  \/ \E u \in Users : SttKill(u)
  \/ \E u \in Users : SttAddUser(u, CapBounds)
  \/ \E u \in Users : SttRemoveUser(u)
  \/ \E u \in Users : SttSpeakingStart(u, CapBounds)
  \/ SttDestroy
  \/ \E k \in Keys : RegGet(k)
  \/ \E p \in 1..MaxCapSpawns : ProcExit(p)

SpecSttCap == Init /\ [][NextSttCap]_vars

\* ------------------------------------------------- end-to-end scenario
\* One speaker joins a session with STT enabled that another user starts,
\* speaks, pauses, speaks again and leaves; the speaker can join as soon as
\* the session is in activeSessions, while startSession is still between the
\* awaits of its STT set-up.  Each speaking event reaches the burst tracker's
\* listener and, while the STT listener is registered, that one in the same
\* emit.  The scenario is over before the first resync heartbeat is due.
MaxSpeechMs == 3000
MaxPauseMs == 18000
ScenarioSteps == {1000, 5000}
Speaker == "u1"
Invoker == "u2"

\* the speaker's VadGate, and the streams of it that are no longer open
SpeakerGate(p) == p.heap[p.gates[Speaker]].vad
ClosedStreams(p) ==
  IF ~p.constructed \/ p.gates[Speaker] = NoGateRef THEN 0
  ELSE Cardinality({s \in 1..Len(SpeakerGate(p).streams) :
                      ~SpeakerGate(p).streams[s].open})

\* what the scenario leaves alone
nonScenarioVars == <<muxVars, regLog, gateVars, dbVars, ffmpeg, boot, hydration, starts, stops, usage>>

\* before the /session start command: /consent toggle
ScenarioSetting ==
  /\ session.startCall = "none"
  /\ ConsentToggle

\* before the command: the speaker's /consent accept
ScenarioConsent ==
  /\ session.startCall = "none"
  /\ ConsentAccept(Speaker)

\* before the command: the invoker joins the voice channel
ScenarioInvoker ==
  /\ session.startCall = "none"
  /\ Join(Invoker)

\* startSession by the invoker, who is in the voice channel, up to the await
\* of deferReply
ScenarioFetched ==
  /\ Invoker \in session.inChannel
  /\ SessionFetched(Invoker)

\* startSession once the connection is ready: activeSessions.set and the
\* loop over the members, with config.stt.enabled; an exception of the loop
\* ends the call, otherwise it awaits the imports of the STT set-up
ScenarioRegistered ==
  /\ session.startCall = "entering"
  /\ \E members \in Orders(session.inChannel) :
       LET entered == [SessionWorld EXCEPT !.bt = NewBurstTracker,
                                           !.s.registered = TRUE]
           looped == memberLoop(entered, members, session.startedAt, TRUE)
       IN SessionBecomes([looped EXCEPT !.s.startCall =
                            IF looped.threw THEN "started" ELSE "importing"])
  /\ UNCHANGED <<regLog, engines, scenario, nonScenarioVars, now>>

\* sttProcessor.addUser for the members that the loop subscribed
RECURSIVE addUsers(_, _)
addUsers(w, userIds) ==
  IF userIds = {} THEN w
  ELSE LET u == CHOOSE x \in userIds : TRUE
       IN addUsers(addUser(w, u), userIds \ {u})

\* the first imports of the STT set-up settled.  Loaded: acquireSttEngine,
\* new SttProcessor, addUser for the subscribed members and the speaking
\* listeners, up to the await of the next import.  Otherwise the catch block
\* finds no processor and no engine to give back, and the call goes on to
\* the resync heartbeat.
ScenarioSttAcquired(loaded) ==
  /\ session.startCall = "importing"
  /\ IF loaded
     THEN /\ engines' = acquireSttEngine(engines, "google-cloud-stt", FALSE)
          /\ Becomes(addUsers([p |-> NewSttProcessor(DefaultStreamCap),
                               reg |-> registry],
                              session.notifiedUsers \cap session.inChannel))
          /\ tracker' = [tracker EXCEPT !.others = OtherListeners]
          /\ session' = [session EXCEPT !.startCall = "wiring"]
     ELSE /\ session' = [session EXCEPT !.startCall = "started",
                                        !.resyncTimer = now + RESYNC_MS]
          /\ UNCHANGED <<engines, processor, registry, tracker>>
  /\ UNCHANGED <<recorder, regLog, scenario, nonScenarioVars, now>>

\* the later imports of the STT set-up settled.  Loaded: the transcript
\* writer, the usage tracker and the processor's listeners, then the resync
\* heartbeat.  Otherwise the catch block: the speaking listeners are taken
\* off, the processor is destroyed and session.sttProcessor set to null, up
\* to the await of the import that gives the engine back.
ScenarioSttWired(loaded) ==
  /\ session.startCall = "wiring"
  /\ IF loaded
     THEN /\ session' = [session EXCEPT !.startCall = "started",
                                        !.resyncTimer = now + RESYNC_MS]
          /\ UNCHANGED <<processor, tracker>>
     ELSE /\ tracker' = [tracker EXCEPT !.others = {}]
          /\ processor' = [processorDestroy(processor) EXCEPT !.constructed = FALSE]
          /\ session' = [session EXCEPT !.startCall = "releasing"]
  /\ UNCHANGED <<recorder, regVars, engines, scenario, nonScenarioVars, now>>

\* the catch block's import settled: releaseSttEngine, then the resync
\* heartbeat
ScenarioSttReleased ==
  /\ session.startCall = "releasing"
  /\ engines' = releaseSttEngine(engines, "google-cloud-stt", FALSE)
  /\ session' = [session EXCEPT !.startCall = "started",
                                !.resyncTimer = now + RESYNC_MS]
  /\ UNCHANGED <<recorder, tracker, regVars, processor, scenario, nonScenarioVars, now>>

\* the late-join handler for the speaker, who may be recorded
ScenarioJoin ==
  /\ scenario.pc = "idle"
  /\ session.registered
  /\ Speaker \notin session.inChannel
  /\ session.consentRequired => Speaker \in session.consented
  /\ SessionBecomes(lateJoin([SessionWorld EXCEPT !.s.inChannel = @ \cup {Speaker}],
                             Speaker, now, TRUE))
  /\ scenario' = [scenario EXCEPT !.pc = "joined"]
  /\ UNCHANGED <<regLog, engines, nonScenarioVars, now>>

\* receiver.speaking 'start': boundOnStart, then, unless that threw, sttOnStart
ScenarioSpeakingStart ==
  /\ scenario.pc \in {"joined", "pause"}
  /\ tracker' = IF onSpeakingStartThrows(tracker, recorder, Speaker) THEN tracker
                ELSE heardByOthers(onSpeakingStart(tracker, recorder, Speaker),
                                   "sttOnStart")
  /\ Becomes(IF /\ "sttOnStart" \in tracker.others
                /\ ~onSpeakingStartThrows(tracker, recorder, Speaker)
             THEN processorOnSpeakingStart(World, Speaker, now) ELSE World)
  /\ scenario' =
       IF scenario.pc = "joined"
       THEN [scenario EXCEPT !.pc = "speaking", !.phaseStart = now]
       ELSE [scenario EXCEPT !.pc = "speakingAgain",
                             !.pauseMs = now - scenario.phaseStart,
                             !.phaseStart = now,
                             !.closedAtResume = ClosedStreams(processor)]
  /\ UNCHANGED <<recorder, session, regLog, engines, nonScenarioVars, now>>

\* receiver.speaking 'end': boundOnEnd, then sttOnEnd
ScenarioSpeakingEnd ==
  /\ scenario.pc \in {"speaking", "speakingAgain"}
  /\ tracker' = heardByOthers(onSpeakingEnd(tracker, recorder, Speaker), "sttOnEnd")
  /\ processor' = IF "sttOnEnd" \in tracker.others
                  THEN processorOnSpeakingEnd(processor, Speaker, now) ELSE processor
  /\ scenario' =
       IF scenario.pc = "speaking"
       THEN [scenario EXCEPT !.pc = "pause", !.phaseStart = now,
                             !.closedAtPause = ClosedStreams(processor)]
       ELSE [scenario EXCEPT !.pc = "spoken"]
  /\ UNCHANGED <<recorder, session, regVars, engines, nonScenarioVars, now>>

\* voiceStateUpdate: the speaker leaves (handleUserLeave)
ScenarioLeave ==
  /\ scenario.pc = "spoken"
  /\ SessionBecomes(teardownUserInSession(
                      [SessionWorld EXCEPT !.s.inChannel = @ \ {Speaker}], Speaker, now))
  /\ scenario' = [scenario EXCEPT !.pc = "left"]
  /\ UNCHANGED <<regLog, engines, nonScenarioVars, now>>

\* Time passes while the speaker speaks or pauses.
ScenarioTick(step) ==
  /\ \/ /\ scenario.pc \in {"speaking", "speakingAgain"}
        /\ now + step <= scenario.phaseStart + MaxSpeechMs
     \/ /\ scenario.pc = "pause"
        /\ now + step <= scenario.phaseStart + MaxPauseMs
  /\ now' = now + step
  /\ UNCHANGED <<sessionVars, regVars, procVars, scenario, engines, nonScenarioVars>>

\* No gate of the speaker is ever constructed, so no timer of a gate runs
\* during the scenario.
NextScenario ==
  \/ ScenarioSetting
  \/ ScenarioConsent
  \/ ScenarioInvoker
  \/ SessionCalled
  \/ ScenarioFetched
  \/ SessionInserted(TRUE)
  \/ ScenarioRegistered
  \/ \E loaded \in BOOLEAN : ScenarioSttAcquired(loaded)
  \/ \E loaded \in BOOLEAN : ScenarioSttWired(loaded)
  \/ ScenarioSttReleased
  \/ ScenarioJoin
  \/ ScenarioSpeakingStart
  \/ ScenarioSpeakingEnd
  \/ ScenarioLeave
  \/ \E step \in ScenarioSteps : ScenarioTick(step)

SpecScenario == Init /\ [][NextScenario]_vars

\* ------------------------------------------------ resampler operations
MaxResamplerTicks == 3
MaxResamplerWrites == 7
\* the clock moves by a second or by the watchdog's hour
ClockSteps == {1000, IDLE_WATCHDOG_MS}

ResamplerTimers ==
  ffmpeg.sigkillTimers \cup
  (IF ffmpeg.watchdogTimer = NullTime THEN {} ELSE {ffmpeg.watchdogTimer})

\* The 'error' of a write that failed inside stdin.write is emitted on the
\* next tick, ahead of every timer and every event of the child.
ErrorPending == ffmpeg.stdin.errored /\ ~ffmpeg.stdin.errorEmitted

\* Time passes, up to the next timer that is due.
ResamplerTick ==
  /\ ffmpeg.constructed
  /\ ~ErrorPending
  /\ ffmpeg.ticks < MaxResamplerTicks
  /\ \A tm \in ResamplerTimers : tm > now
  /\ \E step \in ClockSteps :
        now' = IF \E tm \in ResamplerTimers : tm < now + step
               THEN CHOOSE tm \in ResamplerTimers :
                      \A other \in ResamplerTimers : tm <= other
               ELSE now + step
  /\ ffmpeg' = [ffmpeg EXCEPT !.ticks = @ + 1]
  /\ UNCHANGED besideResampler

\* new FfmpegResampler(userId)
ResamplerCreate ==
  /\ ~ffmpeg.constructed
  /\ ffmpeg' = NewFfmpegResampler(now)
  /\ UNCHANGED <<nonResamplerVars, now>>

\* resampler.writeOpusData(chunk); a write that raises is taken for a pipe
\* the child has closed
ResamplerWrite(chunk, writeThrows) ==
  /\ ffmpeg.constructed
  /\ ffmpeg.handed + ffmpeg.dropped < MaxResamplerWrites
  /\ ffmpeg' = writeOpusData(ffmpeg, chunk, now, writeThrows)
  /\ UNCHANGED <<nonResamplerVars, now>>

\* the child has read what was queued on its stdin
StdinFlushed ==
  /\ ffmpeg.constructed
  /\ ~ErrorPending
  /\ ~ffmpeg.stdin.readerClosed
  /\ ffmpeg.stdin.length > 0
  /\ ffmpeg' = stdinFlushed(ffmpeg)
  /\ UNCHANGED <<nonResamplerVars, now>>

\* resampler.kill()
ResamplerKill ==
  /\ ffmpeg.constructed
  /\ ffmpeg' = kill(ffmpeg, now)
  /\ UNCHANGED <<nonResamplerVars, now>>

\* the idle watchdog runs
WatchdogTimer ==
  /\ ~ErrorPending
  /\ ffmpeg.watchdogTimer # NullTime
  /\ ffmpeg.watchdogTimer <= now
  /\ ffmpeg' = watchdogFired(ffmpeg, now)
  /\ UNCHANGED <<nonResamplerVars, now>>

\* a SIGKILL fallback timer runs
SigkillTimer(tm) ==
  /\ ~ErrorPending
  /\ tm \in ffmpeg.sigkillTimers
  /\ tm <= now
  /\ ffmpeg' = sigkillFallback(ffmpeg, tm, now)
  /\ UNCHANGED <<nonResamplerVars, now>>

\* the child exits: on its own, or after a signal
ResamplerExit ==
  /\ ffmpeg.constructed
  /\ ~ErrorPending
  /\ ~ffmpeg.exited
  /\ ffmpeg' = onExit(ffmpeg)
  /\ UNCHANGED <<nonResamplerVars, now>>

\* the child closes its stdin and keeps running
ChildClosesStdin ==
  /\ ffmpeg.constructed
  /\ ~ErrorPending
  /\ ~ffmpeg.exited
  /\ ~ffmpeg.stdin.readerClosed
  /\ ffmpeg' = readerCloses(ffmpeg)
  /\ UNCHANGED <<nonResamplerVars, now>>

\* stdin emits 'error' (EPIPE): for the write that failed inside stdin.write,
\* or for the queued write that fails now that the child has closed its end
StdinEpipe ==
  /\ ffmpeg.constructed
  /\ ~ffmpeg.exited
  /\ ~ffmpeg.stdin.errorEmitted
  /\ \/ ffmpeg.stdin.errored
     \/ ffmpeg.stdin.readerClosed /\ ffmpeg.stdin.length > 0
  /\ ffmpeg' = onStdinEpipe(ffmpeg)
  /\ UNCHANGED <<nonResamplerVars, now>>

NextResampler ==
  \/ ResamplerTick
  \/ ResamplerCreate
  \/ \E chunk \in Chunks, writeThrows \in BOOLEAN :
        /\ writeThrows => ffmpeg.stdin.readerClosed
        /\ ResamplerWrite(chunk, writeThrows)
  \/ StdinFlushed
  \/ ResamplerKill
  \/ WatchdogTimer
  \/ \E tm \in ffmpeg.sigkillTimers : SigkillTimer(tm)
  \/ ResamplerExit
  \/ ChildClosesStdin
  \/ StdinEpipe

SpecResampler == Init /\ [][NextResampler]_vars

\* ------------------------------------------- engine factory operations
MaxEngines == 2
MaxAcquires == 2

\* a session starts with STT enabled: acquireSttEngine(config.stt, diarized)
EngineAcquire(engine, diarized) ==
  /\ LET after == acquireSttEngine(engines, engine, diarized) IN
       /\ Len(after.created) <= MaxEngines
       /\ \A i \in 1..Len(after.created) : after.created[i].acquired <= MaxAcquires
       /\ engines' = after
  /\ UNCHANGED nonEngineVars

\* a session ends, or its STT set-up failed: releaseSttEngine(config.stt, diarized)
EngineRelease(engine, diarized) ==
  /\ engines' = releaseSttEngine(engines, engine, diarized)
  /\ UNCHANGED nonEngineVars

\* destroyAllEngines()
EngineDestroyAll ==
  /\ engines' = destroyAllEngines(engines)
  /\ UNCHANGED nonEngineVars

NextEngines ==
  \/ \E e \in EngineTypes, dz \in BOOLEAN : EngineAcquire(e, dz)
  \/ \E e \in EngineTypes, dz \in BOOLEAN : EngineRelease(e, dz)
  \/ EngineDestroyAll

SpecEngines == Init /\ [][NextEngines]_vars

\* ------------------------------------------------- start-up and crashes
MaxDbSessions == 2
MaxDbTracks == 3
MaxCrashes == 2

\* main(): initDb()
InitDb ==
  /\ boot.pc = "start"
  /\ boot' = [boot EXCEPT !.pc = "dbReady", !.dbOpen = TRUE]
  /\ UNCHANGED nonBootVars

\* main(): recoverStaleSessions()
RecoverStaleSessions ==
  /\ boot.pc = "dbReady"
  /\ boot.dbOpen
  /\ boot' = [recoverStaleSessions(boot) EXCEPT !.pc = "recovered"]
  /\ UNCHANGED nonBootVars

\* main(): the handlers are registered and client.login() resolves
ClientLogin ==
  /\ boot.pc = "recovered"
  /\ boot' = [boot EXCEPT !.pc = "online"]
  /\ UNCHANGED nonBootVars

\* a session is started: insertSession
SessionStart ==
  /\ boot.pc = "online"
  /\ Len(boot.sessions) < MaxDbSessions
  /\ boot' = insertSession(boot)
  /\ UNCHANGED nonBootVars

\* a speaker is subscribed in an active session: insertAudioTrack
TrackStart(sessionId) ==
  /\ boot.pc = "online"
  /\ sessionId \in 1..Len(boot.sessions)
  /\ boot.sessions[sessionId].status = "active"
  /\ Len(boot.audio_tracks) < MaxDbTracks
  /\ boot' = insertAudioTrack(boot, sessionId)
  /\ UNCHANGED nonBootVars

\* a speaker's track is closed: endAudioTrack
TrackEnd(trackId) ==
  /\ boot.pc = "online"
  /\ trackId \in 1..Len(boot.audio_tracks)
  /\ ~boot.audio_tracks[trackId].ended_at
  /\ boot' = endAudioTrack(boot, trackId)
  /\ UNCHANGED nonBootVars

\* the session is stopped: recorder.closeAll(), endSession(.., 'stopped')
SessionStop(sessionId) ==
  /\ boot.pc = "online"
  /\ sessionId \in 1..Len(boot.sessions)
  /\ boot.sessions[sessionId].status = "active"
  /\ boot' = endSession(closeAllTracks(boot, sessionId), sessionId, "stopped")
  /\ UNCHANGED nonBootVars

\* the process dies without running its shutdown handler and is started again
Crash ==
  /\ boot.pc = "online"
  /\ boot.crashes < MaxCrashes
  /\ boot' = [boot EXCEPT !.pc = "start", !.dbOpen = FALSE, !.crashes = @ + 1]
  /\ UNCHANGED nonBootVars

NextBoot ==
  \/ InitDb
  \/ RecoverStaleSessions
  \/ ClientLogin
  \/ SessionStart
  \/ \E sessionId \in 1..MaxDbSessions : TrackStart(sessionId)
  \/ \E trackId \in 1..MaxDbTracks : TrackEnd(trackId)
  \/ \E sessionId \in 1..MaxDbSessions : SessionStop(sessionId)
  \/ Crash

SpecBoot == Init /\ [][NextBoot]_vars

\* ------------------------------------------------ startSession operations
MaxStartCalls == 2

StartCalls == 1..Len(starts.calls)
setCall(st, c, pc) == [st EXCEPT !.calls[c].pc = pc]

\* /session start arrives: startSession runs up to its first await.  A held
\* start lock rejects the call; otherwise it awaits guild.members.fetch.
StartSessionCalled(g) ==
  /\ Len(starts.calls) < MaxStartCalls
  /\ starts' = [starts EXCEPT !.calls =
        Append(@, [guild |-> g,
                   pc |-> IF g \in starts.startLocks THEN "rejected" ELSE "fetching"])]
  /\ UNCHANGED nonStartVars

\* guild.members.fetch resolved: the voice-channel check, the two
\* active-session checks, startLocks.add, then await deferReply
StartSessionFetched(c, inVoice) ==
  /\ starts.calls[c].pc = "fetching"
  /\ LET g == starts.calls[c].guild IN
     starts' =
       IF \/ ~inVoice
          \/ getActiveSession(starts.sessions, g) # NoSession
          \/ starts.activeSessions[g] # NoSession
       THEN setCall(starts, c, "rejected")
       ELSE [setCall(starts, c, "deferring") EXCEPT !.startLocks = @ \cup {g}]
  /\ UNCHANGED nonStartVars

\* deferReply resolved: the permission pre-checks, insertSession,
\* joinVoiceChannel, then await entersState(connection, Ready)
StartSessionDeferred(c, permitted) ==
  /\ starts.calls[c].pc = "deferring"
  /\ starts' =
       IF ~permitted THEN setCall(starts, c, "replying")
       ELSE [setCall(starts, c, "entering") EXCEPT
               !.sessions = Append(@, [id |-> c, guild |-> starts.calls[c].guild,
                                       status |-> "active"]),
               !.connections = @ \cup {c}]
  /\ UNCHANGED nonStartVars

\* entersState settled: on a timeout connection.destroy(), endSession(error)
\* and await editReply; otherwise new SessionRecorder, new BurstTracker,
\* activeSessions.set and the loop over the channel's members.  With a member
\* to record subscribeUser throws in the loop (new OggMuxer), the finally
\* releases the lock and the call ends with the session registered; with
\* none the call goes on to the awaits of the STT wiring and status message.
StartSessionEntered(c, ready, recordable) ==
  /\ starts.calls[c].pc = "entering"
  /\ starts' =
       IF ~ready
       THEN [setCall(starts, c, "replying") EXCEPT
               !.connections = @ \ {c},
               !.sessions = [i \in 1..Len(@) |->
                               IF @[i].id = c THEN [@[i] EXCEPT !.status = "error"]
                               ELSE @[i]]]
       ELSE IF recordable /\ NewOggMuxer.threw
       THEN [setCall(starts, c, "threw") EXCEPT
               !.recorders = @ \cup {c},
               !.activeSessions[starts.calls[c].guild] = c,
               !.startLocks = @ \ {starts.calls[c].guild}]
       ELSE [setCall(starts, c, "wiring") EXCEPT
               !.recorders = @ \cup {c},
               !.activeSessions[starts.calls[c].guild] = c]
  /\ UNCHANGED nonStartVars

\* the last await of the try block resolved: finally startLocks.delete
StartSessionReturned(c) ==
  /\ starts.calls[c].pc \in {"replying", "wiring"}
  /\ starts' = [setCall(starts, c, IF starts.calls[c].pc = "wiring" THEN "started"
                                   ELSE "failed")
                  EXCEPT !.startLocks = @ \ {starts.calls[c].guild}]
  /\ UNCHANGED nonStartVars

NextStart ==
  \/ \E g \in Guilds : StartSessionCalled(g)
  \/ \E c \in StartCalls, inVoice \in BOOLEAN : StartSessionFetched(c, inVoice)
  \/ \E c \in StartCalls, permitted \in BOOLEAN : StartSessionDeferred(c, permitted)
  \/ \E c \in StartCalls, ready, recordable \in BOOLEAN :
        StartSessionEntered(c, ready, recordable)
  \/ \E c \in StartCalls : StartSessionReturned(c)

SpecStart == Init /\ [][NextStart]_vars

\* ---------------------------------------------------- teardown operations
\* Sessions with STT enabled, from activeSessions.set to the end of their
\* teardown.  A teardown call keeps the ActiveSession object it read from
\* activeSessions at its entry, as startSession keeps the one it made.
MaxStartedSessions == 2
MaxTeardownCalls == 2
\* config.stt.engine of the process
ConfiguredEngine == "google-cloud-stt"

TeardownCalls == 1..Len(stops.calls)
StartedSessions == 1..Len(stops.sessions)

\* startSession of a call that is past its guards and whose connection is
\* ready (SpecStart: more than one call of a guild can be): the
\* ActiveSession with sttProcessor null, activeSessions.set, which replaces
\* what the guild had, and the loop over the members.  With a member to
\* record the loop ends the call in subscribeUser's exception; with none the
\* call awaits the imports of the STT set-up.
SessionStarted(g, diarized, recordable) ==
  /\ Len(stops.sessions) < MaxStartedSessions
  /\ stops' = [stops EXCEPT
        !.sessions = Append(@, [guild |-> g, diarized |-> diarized,
                                startCall |-> IF recordable /\ NewOggMuxer.threw
                                              THEN "started" ELSE "importing",
                                engineAcquired |-> FALSE, sttProcessor |-> FALSE,
                                tearingDown |-> FALSE, destroyed |-> FALSE,
                                released |-> 0]),
        !.activeSessions[g] = Len(stops.sessions) + 1]
  /\ UNCHANGED nonStopVars

\* the first imports of the STT set-up settled.  Loaded: acquireSttEngine,
\* new SttProcessor and session.sttProcessor, up to the await of the next
\* import.  Otherwise the catch block has no processor to destroy and no
\* engine to give back.
SessionSttAcquired(s, loaded) ==
  /\ stops.sessions[s].startCall = "importing"
  /\ stops' =
       IF loaded
       THEN [stops EXCEPT
               !.engines = acquireSttEngine(@, ConfiguredEngine,
                                            stops.sessions[s].diarized),
               !.sessions[s].engineAcquired = TRUE,
               !.sessions[s].sttProcessor = TRUE,
               !.sessions[s].startCall = "wiring"]
       ELSE [stops EXCEPT !.sessions[s].startCall = "started"]
  /\ UNCHANGED nonStopVars

\* the later imports of the STT set-up settled.  Otherwise the catch block:
\* session.sttProcessor.destroy() when the session has one, then
\* session.sttProcessor = null, and, the engine being acquired, the await of
\* the import that gives it back
SessionSttWired(s, loaded) ==
  /\ stops.sessions[s].startCall = "wiring"
  /\ stops' =
       IF loaded
       THEN [stops EXCEPT !.sessions[s].startCall = "started"]
       ELSE [stops EXCEPT !.sessions[s].destroyed = @ \/ stops.sessions[s].sttProcessor,
                          !.sessions[s].sttProcessor = FALSE,
                          !.sessions[s].startCall = "releasing"]
  /\ UNCHANGED nonStopVars

\* the catch block's import settled: releaseSttEngine(config.stt,
\* diarizedOption)
SessionSttReleased(s) ==
  /\ stops.sessions[s].startCall = "releasing"
  /\ stops' = [stops EXCEPT
        !.engines = releaseSttEngine(@, ConfiguredEngine, stops.sessions[s].diarized),
        !.sessions[s].released = @ + 1,
        !.sessions[s].startCall = "started"]
  /\ UNCHANGED nonStopVars

\* session.tearingDown = true; session.sttProcessor?.destroy()
beginTeardown(st, s) ==
  [st EXCEPT !.sessions[s].tearingDown = TRUE,
             !.sessions[s].destroyed = @ \/ st.sessions[s].sttProcessor]

\* releaseSessionEngine(session) up to its await: without an SttProcessor it
\* returns, and the caller goes on to its next await
releasing(st, s) == IF st.sessions[s].sttProcessor THEN "importing" ELSE "cleanup"

\* /session stop arrives: stopSession up to await interaction.deferReply()
StopSessionCalled(g) ==
  /\ Len(stops.calls) < MaxTeardownCalls
  /\ stops' = [stops EXCEPT !.calls =
        Append(@, [kind |-> "stop", guild |-> g, session |-> stops.activeSessions[g],
                   pc |-> IF stops.activeSessions[g] # NoSession THEN "deferring"
                          ELSE "done"])]
  /\ UNCHANGED nonStopVars

\* deferReply resolved: tearingDown, the processor's destroy, then
\* releaseSessionEngine up to its await import
StopSessionDeferred(c) ==
  /\ stops.calls[c].pc = "deferring"
  /\ stops' = [beginTeardown(stops, stops.calls[c].session) EXCEPT
                 !.calls[c].pc = releasing(stops, stops.calls[c].session)]
  /\ UNCHANGED nonStopVars

\* the voice connection was lost for good: forceEndSession up to the await
\* import of releaseSessionEngine
ForceEndSessionCalled(g) ==
  /\ Len(stops.calls) < MaxTeardownCalls
  /\ LET s == stops.activeSessions[g] IN
     stops' =
       IF s = NoSession
       THEN [stops EXCEPT !.calls = Append(@, [kind |-> "force", guild |-> g,
                                               session |-> s, pc |-> "done"])]
       ELSE [beginTeardown(stops, s) EXCEPT
               !.calls = Append(@, [kind |-> "force", guild |-> g, session |-> s,
                                    pc |-> releasing(stops, s)])]
  /\ UNCHANGED nonStopVars

\* the guilds that have a session in activeSessions
activeGuilds(st) == {g \in Guilds : st.activeSessions[g] # NoSession}

\* shutdownAllSessions (once per process: isShuttingDown of gracefulShutdown):
\* the callback of every entry of activeSessions runs up to the await import
\* of releaseSessionEngine, and the call awaits Promise.allSettled, also when
\* activeSessions is empty
RECURSIVE shutdownEach(_, _)
shutdownEach(st, guilds) ==
  IF guilds = {} THEN st
  ELSE LET g == CHOOSE x \in guilds : TRUE
           s == st.activeSessions[g]
       IN shutdownEach([beginTeardown(st, s) EXCEPT
                          !.calls = Append(@, [kind |-> "shutdown", guild |-> g,
                                               session |-> s,
                                               pc |-> releasing(st, s)])],
                       guilds \ {g})
ShutdownAllSessionsCalled ==
  /\ Len(stops.calls) + Cardinality(activeGuilds(stops)) <= MaxTeardownCalls
  /\ stops.shutdown = "none"
  /\ stops' = [shutdownEach(stops, activeGuilds(stops)) EXCEPT !.shutdown = "settling"]
  /\ UNCHANGED nonStopVars

\* releaseSessionEngine after its await: releaseSttEngine(config.stt,
\* session.diarized); the caller goes on to its next await
SessionEngineReleased(c) ==
  /\ stops.calls[c].pc = "importing"
  /\ LET s == stops.calls[c].session IN
     stops' = [stops EXCEPT
        !.engines = releaseSttEngine(@, ConfiguredEngine, stops.sessions[s].diarized),
        !.sessions[s].released = @ + 1,
        !.calls[c].pc = "cleanup"]
  /\ UNCHANGED nonStopVars

\* stopSession and forceEndSession: finally activeSessions.delete(guildId),
\* whichever session the guild has by then
TeardownReturned(c) ==
  /\ stops.calls[c].pc = "cleanup"
  /\ stops.calls[c].kind # "shutdown"
  /\ stops' = [stops EXCEPT !.activeSessions[stops.calls[c].guild] = NoSession,
                            !.calls[c].pc = "done"]
  /\ UNCHANGED nonStopVars

\* shutdownAllSessions: Promise.allSettled resolved, activeSessions.clear(),
\* whatever the map holds by then
ShutdownReturned ==
  /\ stops.shutdown = "settling"
  /\ \A c \in TeardownCalls : stops.calls[c].kind = "shutdown" => stops.calls[c].pc = "cleanup"
  /\ stops' = [stops EXCEPT
        !.shutdown = "done",
        !.activeSessions = [g \in Guilds |-> NoSession],
        !.calls = [c \in TeardownCalls |->
                     IF stops.calls[c].kind = "shutdown"
                     THEN [stops.calls[c] EXCEPT !.pc = "done"] ELSE stops.calls[c]]]
  /\ UNCHANGED nonStopVars

NextStop ==
  \/ \E g \in Guilds, diarized, recordable \in BOOLEAN :
        SessionStarted(g, diarized, recordable)
  \/ \E s \in StartedSessions, loaded \in BOOLEAN : SessionSttAcquired(s, loaded)
  \/ \E s \in StartedSessions, loaded \in BOOLEAN : SessionSttWired(s, loaded)
  \/ \E s \in StartedSessions : SessionSttReleased(s)
  \/ \E g \in Guilds : StopSessionCalled(g)
  \/ \E c \in TeardownCalls : StopSessionDeferred(c)
  \/ \E g \in Guilds : ForceEndSessionCalled(g)
  \/ ShutdownAllSessionsCalled
  \/ \E c \in TeardownCalls : SessionEngineReleased(c)
  \/ \E c \in TeardownCalls : TeardownReturned(c)
  \/ ShutdownReturned

SpecStop == Init /\ [][NextStop]_vars

\* ------------------------------------------------- hydration operations
MaxHydratedBursts == 2
\* first_packet_at of the track, in ms
FirstPacketAt == 1000
\* burst_start - first_packet_at of the bursts, in ms
BurstOffsetsMs == {-20, 0, 580, 5000, 320000}
\* the frames a burst holds
BurstFrames == {100}
\* the frames ffmpeg decodes from the track's file: all that were counted,
\* or fewer (the file was cut short)
DecodedFrames == {100, 110, 200}

\* The track's frame counter when the last burst of the table was closed.
FramesRecorded ==
  IF hydration.bursts = <<>> THEN 0
  ELSE hydration.bursts[Len(hydration.bursts)].end_frame_offset

\* The last burst of the table was closed after its track: closeBurst wrote
\* the frame offset 0, and the tracker opens no further burst on the track.
ClosedWithoutTrack ==
  /\ hydration.bursts # <<>>
  /\ LET last == hydration.bursts[Len(hydration.bursts)]
     IN last.end_frame_offset # NullOffset
        /\ last.end_frame_offset < last.start_frame_offset

\* The bot, another process, opened a burst of the track (insertBurst): the
\* one before it is closed (one open burst per track), it starts in the same
\* millisecond or later, at the track's frame count. A .wav written earlier
\* stays as it is.
BurstOpened(offsetMs, skipped) ==
  /\ Len(hydration.bursts) < MaxHydratedBursts
  /\ ~ClosedWithoutTrack
  /\ hydration.bursts # <<>> =>
        /\ hydration.bursts[Len(hydration.bursts)].end_frame_offset # NullOffset
        /\ hydration.bursts[Len(hydration.bursts)].burst_start <= FirstPacketAt + offsetMs
  /\ hydration' =
        [hydration EXCEPT !.bursts = Append(@,
                      [id |-> Len(hydration.bursts) + 1,
                       burst_start |-> FirstPacketAt + offsetMs,
                       start_frame_offset |-> FramesRecorded + skipped,
                       end_frame_offset |-> NullOffset])]
  /\ UNCHANGED nonHydrationVars

\* The bot closed the open burst (closeBurst) after the track had counted
\* frames more frames, or with the frame offset 0 when the track was no
\* longer in the recorder's map.
BurstClosed(frames, tracked) ==
  /\ hydration.bursts # <<>>
  /\ hydration.bursts[Len(hydration.bursts)].end_frame_offset = NullOffset
  /\ hydration' =
        [hydration EXCEPT !.bursts[Len(hydration.bursts)].end_frame_offset =
            IF tracked
            THEN hydration.bursts[Len(hydration.bursts)].start_frame_offset + frames
            ELSE 0]
  /\ UNCHANGED nonHydrationVars

\* hydrateTrack up to the await of the decode: getTrackBursts, the guards
\* (no bursts: the track is skipped)
HydrateStarted(noClamp) ==
  /\ hydration.run.pc = "idle"
  /\ hydration' = IF hydration.bursts = <<>> THEN hydration
                  ELSE [hydration EXCEPT !.run = [pc |-> "decoding",
                                                  bursts |-> hydration.bursts,
                                                  noClamp |-> noClamp,
                                                  temp |-> NoOutput]]
  /\ UNCHANGED nonHydrationVars

\* ffmpeg has decoded the file: the loop over the rows read at the start
\* writes the .hydrated.pcm, up to the await of the encode
HydrateDecoded(decodedFrames) ==
  /\ hydration.run.pc = "decoding"
  /\ hydration' = [hydration EXCEPT
        !.run.pc = "encoding",
        !.run.temp = [hydrateTrack(hydration.run.bursts, FirstPacketAt,
                                   decodedFrames * BYTES_PER_FRAME,
                                   hydration.run.noClamp)
                        EXCEPT !.noClamp = hydration.run.noClamp,
                               !.decodedFrames = decodedFrames]]
  /\ UNCHANGED nonHydrationVars

\* ffmpeg has encoded the .wav (-y: over the one of an earlier run), or it
\* failed and the exception leaves hydrateTrack; finally: the temporary
\* files are removed
HydrateEnded(encoded) ==
  /\ hydration.run.pc \in {"decoding", "encoding"}
  /\ encoded => hydration.run.pc = "encoding"
  /\ hydration' = [hydration EXCEPT
        !.run = NoRun,
        !.output = IF encoded THEN hydration.run.temp ELSE @]
  /\ UNCHANGED nonHydrationVars

NextHydration ==
  \/ \E offsetMs \in BurstOffsetsMs, skipped \in {0, 5} : BurstOpened(offsetMs, skipped)
  \/ \E frames \in BurstFrames, tracked \in BOOLEAN : BurstClosed(frames, tracked)
  \/ \E noClamp \in BOOLEAN : HydrateStarted(noClamp)
  \/ \E decodedFrames \in DecodedFrames : HydrateDecoded(decodedFrames)
  \/ \E encoded \in BOOLEAN : HydrateEnded(encoded)

SpecHydration == Init /\ [][NextHydration]_vars

\* =============================================================== claims
TrackIds == 1..Len(recorder.audioTracks)

\* the track records of a speaker that have not been ended
OpenTracksOf(r, u) ==
  {t \in 1..Len(r.audioTracks) :
     /\ r.audioTracks[t].userId = u /\ r.audioTracks[t].ended_at = 0
     /\ ~r.audioTracks[t].deleted}

\* C5: at most one open track record per speaker; on the recorder of a
\* session subscribeUser for a speaker whose track is open changes nothing,
\* and for any other speaker it allocates a track with frame counter 0 that
\* is then the speaker's track.
C5_OneOpenTrack ==
  /\ \A u \in Users : Cardinality(OpenTracksOf(recorder, u)) <= 1
  /\ session.registered => \A u \in Users :
        LET after == subscribeUser(recorder, u) IN
          /\ getTrack(recorder, u) # NoTrack => after = recorder
          /\ getTrack(recorder, u) = NoTrack =>
                /\ Len(after.audioTracks) = Len(recorder.audioTracks) + 1
                /\ getTrack(after, u) = Len(after.audioTracks)
                /\ after.audioTracks[Len(after.audioTracks)].frameCount = 0

\* Ogg framing (RFC 3533): the payload of the pages cut by the lacing values;
\* a packet ends at the first lacing value below 255.
RECURSIVE Concat(_, _)
Concat(seqs, i) == IF i > Len(seqs) THEN <<>> ELSE seqs[i] \o Concat(seqs, i + 1)

RECURSIVE SplitPackets(_, _, _, _)
SplitPackets(lacing, payload, partial, packets) ==
  IF lacing = <<>> THEN packets
  ELSE LET n == Head(lacing)
           seg == SubSeq(payload, 1, n)
           rest == SubSeq(payload, n + 1, Len(payload))
       IN IF n < 255
          THEN SplitPackets(Tail(lacing), rest, <<>>, Append(packets, partial \o seg))
          ELSE SplitPackets(Tail(lacing), rest, partial \o seg, packets)

Demux(pages) ==
  SplitPackets(Concat([i \in 1..Len(pages) |-> pages[i].segmentTable], 1),
               Concat([i \in 1..Len(pages) |-> pages[i].data], 1), <<>>, <<>>)

\* The data pages of a sink: those after the two header pages, EOS excluded.
DataPages(output) ==
  LET idx == {i \in 3..Len(output) : output[i].headerType = 0}
  IN [k \in 1..Cardinality(idx) |-> output[k + 2]]

\* C6: when a sequence of frames has been muxed, demultiplexing the data
\* pages by their segment tables yields the frames, in order.
C6_RoundTrip ==
  muxed.attempted => Demux(DataPages(mux.output)) = muxed.frames

\* C8: when 3 early exits (within 2 s of their spawn) have been recorded
\* for a key inside the last 60 s, spawn for that key returns null; when every
\* recorded early exit of the key is older than 60 s, spawn starts a process.
C8_CircuitBreaker ==
  /\ regLog.lastSpawn.recent >= BREAKER_MAX_FAILURES
       => regLog.lastSpawn.result = "refused"
  /\ (regLog.lastSpawn.result # "none" /\ regLog.lastSpawn.recent = 0)
       => regLog.lastSpawn.result = "spawned"

OpenStreams == {s \in 1..Len(gate.streams) : gate.streams[s].open}

\* C9: a VadGate never has more than 2 open STT streams, and every open
\* stream is its current stream or its one rotating stream.
C9_AtMostTwoStreams ==
  /\ Cardinality(OpenStreams) <= 2
  /\ OpenStreams \subseteq {gate.currentStream, gate.rotatingStream}

\* a second rotation came while the first one's old stream was still open,
\* and the current and the rotating stream are both open
C9_Witness ==
  /\ gate.rotations >= 2
  /\ Cardinality(OpenStreams) = 2
  /\ \E s \in 1..Len(gate.streams) :
        ~gate.streams[s].open /\ gate.streams[s].emitted = "none"
  /\ gate.config.overlapMs > gate.config.rotationMs

\* C10: a rotation check (periodic or at speaking end) that finds the
\* speech since the counter's last restart at or over the threshold on an open
\* stream rotates exactly once; a rotation restarts the counter from 0; and no
\* rotation happens while that speech is below the threshold.
C10_RotationAtThreshold ==
  /\ gateEnv.lastCheck.crossed => gateEnv.lastCheck.rotations = 1
  /\ gateEnv.lastCheck.rotations <= 1
  /\ gate.rotations > 0 =>
        /\ gate.lastRotation.counter = 0
        /\ gate.lastRotation.speech >= gate.config.rotationMs

\* C11: after a rotation, once the new stream's first result is known, no
\* emitted event carries an older stream's sequence number and a timestamp
\* within 2 s of that first result; and only such events are dropped.
C11_RotationDedup ==
  /\ (gate.rotations > 0 /\ gate.lastNewStreamFirstResult # NullTime) =>
        \A t \in gate.transcripts.emittedOld :
          Abs(t - gate.lastNewStreamFirstResult) > DEDUP_WINDOW_MS
  /\ gate.transcripts.lastDropped # NoEvent =>
        /\ gate.transcripts.lastDropped.old
        /\ Abs(gate.transcripts.lastDropped.segmentStart
                - gate.lastNewStreamFirstResult) <= DEDUP_WINDOW_MS

\* stream s gets its 'error' or 'end' in this step
EndsNow(s) ==
  /\ s \in 1..Len(gate.streams)
  /\ gate'.streams[s].emitted # gate.streams[s].emitted

\* this step arms the reopen timer of the unexpected-close recovery
RecoveryStarts ==
  \E tm \in gate'.timers \ gate.timers : tm.kind = "closeReopen"

\* this step runs that timer and opens a stream
RecoveryReopens ==
  /\ \E tm \in gate.timers \ gate'.timers : tm.kind = "closeReopen" /\ tm.due <= now
  /\ gate'.speechStartTime = gate.speechStartTime
  /\ Len(gate'.streams) > Len(gate.streams)

\* C12: the current stream ending on its own while the speaker speaks
\* starts a cooldown and arms a reopen; the reopen opens a stream only if the
\* speaker is speaking then, and no reopen stays armed once speaking has ended;
\* a stream ending while the speaker is silent, or one the gate closed itself,
\* starts no cooldown and arms no reopen.
C12_CooldownRecovery ==
  /\ [](\A tm \in gate.timers : tm.kind = "closeReopen" => gateEnv.speaking)
  /\ [][/\ (\A s \in 1..MaxStreams :
              (/\ EndsNow(s) /\ s = gate.currentStream /\ ~gate.destroyed
               /\ ~gate.streams[s].closedByGate /\ gateEnv.speaking)
              => (RecoveryStarts /\ gate'.cooldownUntil = now + gate.config.cooldownMs))
         /\ RecoveryStarts =>
             (\E s \in 1..MaxStreams :
                EndsNow(s) /\ ~gate.streams[s].closedByGate /\ gateEnv.speaking)
         /\ (RecoveryReopens => gateEnv.speaking)]_vars

\* C13: while the last speaking event of a live gate is a start, none of
\* its silence-close timers is pending, whatever calls came before.
C13_NoSilenceTimerWhileSpeaking ==
  (gate.constructed /\ ~gate.destroyed /\ gateEnv.speaking) =>
     \A tm \in gate.timers : tm.kind # "silence"

\* the row of the table that a segment's key selects
RowsOf(table, segment) ==
  {i \in 1..Len(table) :
     /\ table[i].session_id = segment.sessionId /\ table[i].track_id = segment.trackId
     /\ table[i].user_id = segment.userId
     /\ table[i].stream_sequence = segment.streamSequence
     /\ table[i].stt_result_id = segment.sttResultId}

\* the events with a result id that a writer can hand over in this state
KeyedSegments ==
  {segment \in Segments :
     segment.sttResultId # NullText /\ Written(transcriptSegments, segment)}

\* the rows the table holds
StoredRows == transcriptSegments.rows

\* at most one row per key with a result id, and one after every write
OneRowPerKeyAsStated ==
  \A segment \in KeyedSegments :
    /\ Cardinality(RowsOf(StoredRows, segment)) <= 1
    /\ Cardinality(RowsOf(insertTranscriptSegment(transcriptSegments, segment, now).rows,
                          segment)) = 1

\* at most one row per key with a result id, and one after every write that
\* does not throw; a write that refers to a session, track or burst without a
\* row throws and leaves the tables as they are
OneRowPerKey ==
  \A segment \in KeyedSegments :
    LET after == insertTranscriptSegment(transcriptSegments, segment, now) IN
    /\ Cardinality(RowsOf(StoredRows, segment)) <= 1
    /\ IF insertThrew(transcriptSegments, after)
       THEN \/ segment.sessionId \notin transcriptSegments.sessions
            \/ ~hasTrack(transcriptSegments, segment.trackId)
            \/ /\ segment.burstId # NullInt
               /\ ~hasBurst(transcriptSegments, segment.burstId)
       ELSE /\ Cardinality(RowsOf(after.rows, segment)) = 1
            /\ segment.sessionId \in transcriptSegments.sessions
            /\ hasTrack(transcriptSegments, segment.trackId)

\* the foreign keys of the stored rows hold in every state
StoredRowsHaveParents == foreignKeysHold(transcriptSegments)

\* an interim write leaves a stored final's result columns alone
FinalKept ==
  \A segment \in KeyedSegments : \A i \in RowsOf(StoredRows, segment) :
    (StoredRows[i].is_final = 1 /\ ~segment.isFinal) =>
      LET after == insertTranscriptSegment(transcriptSegments, segment, now).rows[i] IN
        /\ after.transcript = StoredRows[i].transcript
        /\ after.confidence = StoredRows[i].confidence
        /\ after.segment_end = StoredRows[i].segment_end
        /\ after.is_final = 1

\* the tables after writing the segment once, when that write does not throw
WrittenOnce(segment) ==
  LET after == insertTranscriptSegment(transcriptSegments, segment, now) IN
  IF insertThrew(transcriptSegments, after) THEN {} ELSE {after}

\* C14 as stated: one row per key after any write; a stored final is not
\* changed by a later interim; writing a segment a second time leaves every
\* row as it was.
C14_UpsertAsStated ==
  /\ OneRowPerKeyAsStated
  /\ FinalKept
  /\ \A segment \in KeyedSegments : \A once \in WrittenOnce(segment) :
        \A t \in {now, now + DbTickMs} :
          insertTranscriptSegment(once, segment, t).rows = once.rows

\* C14 (amended): one row per key after every write that the foreign keys
\* let through, and unchanged tables after one they refuse; a stored final
\* is not changed by a later interim; the second write of a segment may set
\* the row's updated_at, every other column is as the first write left it,
\* and the second write returns the id of the row the first one made.
C14_Upsert ==
  /\ OneRowPerKey
  /\ StoredRowsHaveParents
  /\ FinalKept
  /\ \A segment \in KeyedSegments : \A once \in WrittenOnce(segment) :
        \A t \in {now, now + DbTickMs} :
          LET twice == insertTranscriptSegment(once, segment, t) IN
            /\ ~insertThrew(once, twice)
            /\ Len(twice.rows) = Len(once.rows)
            /\ \A i \in 1..Len(once.rows) :
                  [twice.rows[i] EXCEPT !.updated_at = once.rows[i].updated_at]
                    = once.rows[i]
            /\ \A i \in RowsOf(once.rows, segment) :
                  returnedId(once, segment) = once.rows[i].id

\* a final is stored and an interim under the same key has been written after
\* it, so that the table's ids have a gap
C14_Witness ==
  \E i \in 1..Len(StoredRows) :
    /\ StoredRows[i].is_final = 1 /\ StoredRows[i].stt_result_id # NullText
    /\ StoredRows[i].updated_at # NullInt
    /\ StoredRows[i].burst_id = 1
    /\ transcriptSegments.seq > Len(StoredRows)

\* C15: the processor never holds more gates than a positive
\* maxConcurrentStreams; addUser at the cap adds no gate; addUser for a
\* speaker with a gate, or on a destroyed processor, changes nothing.
C15_GateCap ==
  processor.constructed =>
    /\ (processor.maxConcurrentStreams > 0 =>
          gatesSize(processor) <= processor.maxConcurrentStreams)
    /\ \A u \in Users :
          LET after == addUser(World, u) IN
            /\ (/\ processor.maxConcurrentStreams > 0
                /\ gatesSize(processor) >= processor.maxConcurrentStreams) =>
                  after = World
            /\ (processor.destroyed \/ hasUser(processor, u)) => after = World

\* the processor is at its cap and a second speaker has a live resampler
C15_Witness ==
  /\ processor.constructed /\ processor.maxConcurrentStreams = 1
  /\ gatesSize(processor) = 1
  /\ \E u \in Users :
        /\ ~hasUser(processor, u)
        /\ registry.resamplers[makeKey("s1", u)] # NoProc
        /\ registry.procs[registry.resamplers[makeKey("s1", u)]].alive

\* the registry's entry for the speaker is missing or dead
ResamplerGone(u) ==
  LET r == registry.resamplers[makeKey("s1", u)] IN
    r = NoProc \/ ~registry.procs[r].alive

\* C16: a speaking-start for a speaker who has a gate but no live resampler
\* destroys that gate, spawns a resampler and leaves the speaker with a new
\* gate on the new resampler that has received the speaking-start; no gate
\* ever changes the resampler it was constructed on.
C16_RebindOnSpeakingStart ==
  [][/\ \A u \in Speakers :
          (/\ hasUser(processor, u) /\ ResamplerGone(u)
           /\ SttSpeakingStart(u, SttBounds)) =>
            LET old == processor.gates[u]
                fresh == processor'.gates[u]
            IN /\ processor'.heap[old].vad.destroyed
               /\ Len(registry'.procs) = Len(registry.procs) + 1
               /\ fresh # NoGateRef /\ fresh # old
               /\ processor'.heap[fresh].resampler = Len(registry'.procs)
               /\ registry'.resamplers[makeKey("s1", u)] = Len(registry'.procs)
               /\ ~processor'.heap[fresh].vad.destroyed
               /\ processor'.heap[fresh].vad.speechStartTime # NullTime
     /\ \A i \in 1..Len(processor.heap) :
          processor'.heap[i].resampler = processor.heap[i].resampler]_vars

\* the sequence numbers of the streams a gate has created
SequencesOf(g) == {g.streams[i].streamSequence : i \in 1..Len(g.streams)}

\* C18: a stream that a speaking-start creates for a speaker, on the gate
\* the speaker had or on the gate rebuilt after a resampler respawn, has a
\* sequence number greater than those of all streams the speaker's gate had
\* created before.
C18_SequenceIncreases ==
  [][\A u \in Speakers :
       (hasUser(processor, u) /\ SttSpeakingStart(u, SttBounds)
          /\ hasUser(processor', u)) =>
         LET old == processor.heap[processor.gates[u]].vad
             after == processor'.heap[processor'.gates[u]].vad
             created == IF processor'.gates[u] = processor.gates[u]
                        THEN SequencesOf(after) \ SequencesOf(old)
                        ELSE SequencesOf(after)
         IN \A n \in created : \A m \in SequencesOf(old) : n > m]_vars

\* within one gate, every stream has a sequence number greater than those of
\* the streams the gate created before it
GateSequencesIncrease ==
  \A a \in 1..Len(gate.streams) : \A b \in 1..Len(gate.streams) :
    a < b => gate.streams[a].streamSequence < gate.streams[b].streamSequence

\* what destroy() has to leave behind when it runs on the gate
Destroyed(before, after) ==
  /\ after.destroyed /\ after.speechStartTime = NullTime
  /\ after.lastWords = (IF before.speechStartTime # NullTime THEN 1 ELSE 0)
  /\ after.timers = {}
  /\ after.silenceTimer = NoTimer /\ after.cooldownReopenTimer = NoTimer
  /\ after.rotationCheckTimer = NoTimer /\ after.rotationTimer = NoTimer
  /\ \A s \in 1..Len(after.streams) : ~after.streams[s].open
  /\ after.currentStream = NoStream /\ after.rotatingStream = NoStream
  /\ ~after.pcmListener

\* nothing but the arrival of the 'end' events of streams already closed
\* (and the model's count of the time the user has been speaking)
Inert(before, after) ==
  /\ [after EXCEPT !.streams = before.streams,
                   !.speechSinceReset = before.speechSinceReset] = before
  /\ Len(after.streams) = Len(before.streams)
  /\ \A s \in 1..Len(after.streams) :
        [after.streams[s] EXCEPT !.emitted = before.streams[s].emitted] = before.streams[s]

\* the transcript events the gate's streams can deliver
StreamEvents ==
  {[streamSequence |-> gate.streams[s].streamSequence, segmentStart |-> t, old |-> FALSE] :
     s \in 1..Len(gate.streams), t \in SegmentStarts}

\* C20: destroy emits the running speech duration once, leaves no timer of
\* the gate pending, no stream open and no PCM listener; after it no event
\* opens a stream or emits anything, and a second destroy changes nothing.
C20_DestroyFinal ==
  /\ [][(gate.constructed /\ ~gate.destroyed /\ gate'.destroyed) =>
          Destroyed(gate, gate')]_vars
  /\ [][gate.destroyed => Inert(gate, gate')]_vars
  /\ [](gate.destroyed =>
          /\ gateDestroy(gate) = gate
          /\ gateOnSpeakingStart(gate, now) = gate
          /\ gateOnSpeakingEnd(gate, now) = gate
          /\ \A event \in StreamEvents : handleTranscript(gate, event) = gate)

\* C21: however often kill() is called the process gets SIGTERM at most once;
\* SIGKILL is sent only when the 2 s grace period after the SIGTERM has ended
\* with the process still running; no signal is ever sent to a process that
\* has exited, and once it has exited no fallback timer remains.
Signals(name) == {i \in 1..Len(ffmpeg.signals) : ffmpeg.signals[i].signal = name}
C21_KillSignals ==
  /\ Cardinality(Signals("SIGTERM")) <= 1
  /\ \A i \in Signals("SIGKILL") :
        \E j \in Signals("SIGTERM") :
          /\ j < i
          /\ ffmpeg.signals[i].at >= ffmpeg.signals[j].at + SIGKILL_GRACE_MS
  /\ \A i \in 1..Len(ffmpeg.signals) : ~ffmpeg.signals[i].exited
  /\ ffmpeg.exited => ffmpeg.sigkillTimers = {}

\* kill() was called on a live resampler and again afterwards is covered by
\* the action; here the process ignored SIGTERM and got SIGKILL.
C21_Witness ==
  /\ Signals("SIGTERM") # {}
  /\ Signals("SIGKILL") # {}
  /\ ffmpeg.exited

\* C28: no chunk is handed to the pipe while backpressure is active: a chunk
\* offered to a paused resampler is dropped; a live resampler on a writable
\* pipe is paused only while a 'drain' event is owed, the event ends the
\* pause, and a chunk offered to a live, unpaused resampler on a writable pipe
\* is handed to the pipe; what is queued on the pipe never exceeds the
\* high-water mark by a whole packet.
WriteAccepted(r) == r.alive /\ r.stdin.writable /\ ~r.paused
PausedOnlyForDrain ==
  /\ ffmpeg.pausedWrites = 0
  /\ (ffmpeg.alive /\ ffmpeg.stdin.writable /\ ffmpeg.paused) => ffmpeg.stdin.needDrain
  /\ ffmpeg.stdin.length < HighWaterMark + DecodedBytes(<<248>>)
  /\ ffmpeg.constructed =>
        \A chunk \in Chunks :
          LET after == writeOpusData(ffmpeg, chunk, now, FALSE) IN
          /\ (WriteAccepted(ffmpeg) /\ DecodedBytes(chunk) >= 0)
                => after.handed = ffmpeg.handed + 1
          /\ ffmpeg.paused
                => after.handed = ffmpeg.handed /\ after.stdin = ffmpeg.stdin
DrainResumes ==
  (ffmpeg.stdin.needDrain /\ ~ffmpeg'.stdin.needDrain /\ ffmpeg'.alive)
    => ~ffmpeg'.paused
C25_EngineRefCountAsStated ==
  /\ \A i \in 1..Len(engines.created) :
        LET e == engines.created[i] IN
        /\ e.released <= e.acquired
        /\ e.refCount = e.acquired - e.released
        /\ e.released < e.acquired => (engines.map[e.key] = i /\ e.destroyed = 0)
        /\ e.released = e.acquired => (engines.map[e.key] # i /\ e.destroyed = 1)
  /\ \A k \in EngineKeys :
        engines.map[k] # NoEngine => engines.created[engines.map[k]].key = k
  /\ \A t \in EngineTypes, dz \in BOOLEAN :
        engines.map[engineKey(t, dz)] = NoEngine =>
          releaseSttEngine(engines, t, dz) = engines

\* the engines registered in a state
RegisteredEngines(es) == {es.map[k] : k \in EngineKeys} \ {NoEngine}
\* an engine is registered exactly as long as it has not been destroyed, it
\* is destroyed at most once, and its count is its acquires minus its releases
EngineCounts ==
  /\ \A i \in 1..Len(engines.created) :
        LET e == engines.created[i] IN
        /\ e.released <= e.acquired
        /\ e.refCount = e.acquired - e.released
        /\ e.destroyed <= 1
        /\ engines.map[e.key] = i <=> e.destroyed = 0
        /\ e.released = e.acquired => e.destroyed = 1
  /\ \A k \in EngineKeys :
        engines.map[k] # NoEngine => engines.created[engines.map[k]].key = k
  /\ \A t \in EngineTypes, dz \in BOOLEAN :
        engines.map[engineKey(t, dz)] = NoEngine =>
          releaseSttEngine(engines, t, dz) = engines
\* a step destroys an engine either by the release that takes its count to
\* zero, or together with every other registered engine and with no release
DestroyedAtZeroOrAll ==
  \A i \in 1..Len(engines.created) :
    (engines.created[i].destroyed = 0 /\ engines'.created[i].destroyed = 1) =>
      \/ /\ engines'.created[i].released = engines.created[i].released + 1
         /\ engines'.created[i].released = engines'.created[i].acquired
         /\ RegisteredEngines(engines') = RegisteredEngines(engines) \ {i}
      \/ /\ RegisteredEngines(engines') = {}
         /\ \A j \in 1..Len(engines.created) :
               /\ engines'.created[j].released = engines.created[j].released
               /\ engines'.created[j].acquired = engines.created[j].acquired

\* C25, amended: releaseSttEngine destroys an engine only when its count
\* reaches zero (after k acquires and fewer than k releases it is registered
\* and not destroyed unless destroyAllEngines ran, the k-th release destroys
\* it once, a release with no engine registered changes nothing), and
\* destroyAllEngines destroys every registered engine once, whatever its
\* count, and empties the registry.
C25_EngineRefCount == []EngineCounts /\ [][DestroyedAtZeroOrAll]_vars

\* an engine shared by two sessions was destroyed by its second release, and
\* a later engine of the same key, released once of two, by destroyAllEngines
C25_Witness ==
  \E i, j \in 1..Len(engines.created) :
    /\ i < j /\ engines.created[i].key = engines.created[j].key
    /\ engines.created[i].destroyed = 1 /\ engines.created[i].acquired = 2
    /\ engines.created[i].released = 2
    /\ engines.created[j].acquired = 2 /\ engines.created[j].released = 1
    /\ engines.created[j].destroyed = 1
    /\ engines.map[engines.created[j].key] = NoEngine

\* C26: the client is online only after the database was opened and recovery
\* ran; when recovery has run, and until a session is started again, no
\* session is 'active' and no track of a session that ended in 'error' is
\* without an end.
Recovered == boot.pc = "recovered"
C26_StartupRecovery ==
  /\ boot.pc \in {"recovered", "online"} => boot.dbOpen
  /\ Recovered =>
       /\ \A i \in 1..Len(boot.sessions) : boot.sessions[i].status # "active"
       /\ \A t \in 1..Len(boot.audio_tracks) :
             boot.sessions[boot.audio_tracks[t].session_id].status = "error"
               => boot.audio_tracks[t].ended_at

\* the part of C26 the code keeps: start-up order and the session rows
SessionsReconciled ==
  /\ boot.pc \in {"recovered", "online"} => boot.dbOpen
  /\ Recovered =>
       \A i \in 1..Len(boot.sessions) :
         boot.sessions[i].status # "active" /\ boot.sessions[i].ended_at

\* C27: in the hydrated output the audio of every burst whose frame-aligned
\* target (burst start minus first_packet_at, in bytes, rounded down to a
\* whole frame) is at or beyond the write position and within the gap cap
\* starts exactly at that target; a single burst [T0+5s, T0+7s) at frames
\* [0, 100) gives 5 s of silence and then the 100 frames, 7 s in all to
\* within one frame.
ExactTarget(burst) ==
  LET bytes == (burst.burst_start - FirstPacketAt) * (BYTES_PER_SECOND \div 1000)
  IN bytes - (bytes % BYTES_PER_FRAME)
WritesOf(burst, kind) ==
  {i \in 1..Len(hydration.output.writes) :
     /\ hydration.output.writes[i].burst = burst.id
     /\ hydration.output.writes[i].kind = kind}
PositionBefore(burst, audio) ==
  IF WritesOf(burst, "silence") = {} THEN hydration.output.writes[audio].at
  ELSE hydration.output.writes[CHOOSE i \in WritesOf(burst, "silence") : TRUE].at
Anchored(burst) ==
  \A audio \in WritesOf(burst, "audio") :
    LET gap == ExactTarget(burst) - PositionBefore(burst, audio) IN
    (gap >= 0 /\ (hydration.output.noClamp \/ gap <= MAX_SILENCE_BYTES))
      => hydration.output.writes[audio].at = ExactTarget(burst)
FiveSecondExample ==
  (/\ Len(hydration.output.bursts) = 1
   /\ hydration.output.bursts[1].burst_start = FirstPacketAt + 5000
   /\ hydration.output.bursts[1].start_frame_offset = 0
   /\ hydration.output.bursts[1].end_frame_offset = 100)
  => /\ hydration.output.writes =
          << [kind |-> "silence", burst |-> 1, at |-> 0, from |-> 0,
              bytes |-> 5 * BYTES_PER_SECOND],
             [kind |-> "audio", burst |-> 1, at |-> 5 * BYTES_PER_SECOND, from |-> 0,
              bytes |-> 100 * BYTES_PER_FRAME] >>
     /\ hydration.output.currentOutputBytes - 7 * BYTES_PER_SECOND < BYTES_PER_FRAME
     /\ 7 * BYTES_PER_SECOND - hydration.output.currentOutputBytes < BYTES_PER_FRAME
C27_AnchoredAlignment ==
  hydration.output.done =>
    /\ \A b \in 1..Len(hydration.output.bursts) : Anchored(hydration.output.bursts[b])
    /\ FiveSecondExample

\* C29: a key never has two processes running: every resampler whose process
\* has not exited is the one registered under its key, and a resampler that
\* is no longer registered has been sent SIGTERM or has exited; get returns
\* only a live resampler and leaves no dead entry under the key.
Running(p) == p \in regLog.running
C29_OneLiveResamplerPerKey ==
  /\ \A p \in 1..Len(registry.procs) :
        /\ Running(p) => registry.resamplers[registry.procs[p].key] = p
        /\ registry.resamplers[registry.procs[p].key] # p
             => p \in regLog.signalled \/ ~Running(p)
  /\ \A k \in Keys :
        LET r == registryGetResult(registry, k)
            after == registryGet(registry, k)
        IN /\ r # NoProc => registry.procs[r].alive /\ registry.procs[r].key = k
           /\ after.resamplers[k] = r
           /\ after.procs = registry.procs

\* the part of C29 about the registry's own bookkeeping: every resampler that
\* counts as alive is the one registered under its key
OneAliveResamplerPerKey ==
  \A p \in 1..Len(registry.procs) :
    registry.procs[p].alive => registry.resamplers[registry.procs[p].key] = p

\* C30: onSpeakingStart on a live gate with no open current stream opens a
\* stream at once when no cooldown is active, with the sequence number one
\* higher and the cumulative-speech counter at 0; during a cooldown it opens
\* none and arms the deferred open for the end of the cooldown.  No stream is
\* ever opened inside a cooldown; a deferred open that is still pending means
\* the speaker has not stopped since, and its callback opens a stream when
\* the gate is not destroyed and no stream is open.
StartsWithoutStream ==
  LET after == gateOnSpeakingStart(gate, now)
      deferred == after.cooldownReopenTimer
  IN (gate.constructed /\ ~gate.destroyed /\ ~isOpen(gate, gate.currentStream)) =>
       IF now >= gate.cooldownUntil
       THEN /\ Len(after.streams) = Len(gate.streams) + 1
            /\ after.currentStream = Len(after.streams)
            /\ isOpen(after, after.currentStream)
            /\ after.streamSequence = gate.streamSequence + 1
            /\ after.streams[after.currentStream].streamSequence = after.streamSequence
            /\ after.cumulativeSpeechMs = 0
            /\ after.cooldownReopenTimer = NoTimer
       ELSE /\ after.streams = gate.streams
            /\ after.streamSequence = gate.streamSequence
            /\ deferred.kind = "cooldownReopen"
            /\ deferred.due = gate.cooldownUntil
            /\ deferred \in after.timers
DeferredOpenPending ==
  gate.cooldownReopenTimer.kind = "cooldownReopen" =>
    /\ gate.cooldownReopenTimer \in gate.timers
    /\ gate.cooldownReopenTimer.due = gate.cooldownUntil
    /\ gate.speechStartTime # NullTime
    /\ ~gate.destroyed
    /\ LET after == cooldownReopen(clearTimer(gate, gate.cooldownReopenTimer)) IN
       IF isOpen(gate, gate.currentStream) THEN after.streams = gate.streams
       ELSE /\ Len(after.streams) = Len(gate.streams) + 1
            /\ isOpen(after, after.currentStream)
            /\ after.streamSequence = gate.streamSequence + 1
OpensOutsideCooldown ==
  Len(gate'.streams) > Len(gate.streams) =>
    now >= gate.cooldownUntil \/ isOpen(gate, gate.currentStream)
C30_OpenOnSpeakingStart ==
  /\ [](StartsWithoutStream /\ DeferredOpenPending)
  /\ [][OpensOutsideCooldown]_vars

\* the speaker started inside a cooldown, onSpeakingStart opened no stream and
\* armed the deferred open, and the cooldown is now over with the deferred
\* open due
C30_Witness ==
  /\ gate.constructed /\ ~gate.destroyed
  /\ Len(gate.streams) >= 1
  /\ ~isOpen(gate, gate.currentStream)
  /\ gate.cooldownReopenTimer.kind = "cooldownReopen"
  /\ gate.cooldownReopenTimer \in gate.timers
  /\ now = gate.cooldownUntil
  /\ gate.speechStartTime # NullTime
  /\ gate.speechStartTime < gate.cooldownUntil
  /\ gate.speechStartTime >= gate.cooldownUntil - gate.config.cooldownMs

\* C31: after a rotation the old stream is the rotating stream: it is open,
\* every PCM chunk is written to it as well as to the open current stream, and
\* its timer runs for exactly the overlap window.  The gate closes it only when
\* that timer is due, on destroy or on a further rotation, and no stream other
\* than the current one is open once the window has ended.
RotatedNow == gate'.rotations > gate.rotations
OverlapPending(g) ==
  /\ g.rotationTimer \in g.timers
  /\ g.rotationTimer.kind = "rotation"
  /\ now <= g.rotationTimer.due
OldStreamsInWindow ==
  \A s \in 1..Len(gate.streams) :
    (gate.streams[s].open /\ s # gate.currentStream) =>
       /\ s = gate.rotatingStream
       /\ OverlapPending(gate)
       /\ s \in pcmTargets(gate)
       /\ isOpen(gate, gate.currentStream) => gate.currentStream \in pcmTargets(gate)
RotationKeepsOld ==
  RotatedNow =>
    /\ gate'.rotatingStream = gate.currentStream
    /\ isOpen(gate', gate'.rotatingStream)
    /\ isOpen(gate', gate'.currentStream)
    /\ gate'.currentStream # gate'.rotatingStream
    /\ gate'.rotationTimer.due = now + gate.config.overlapMs
    /\ gate'.rotationTimer \in gate'.timers
OldClosedOnlyAtEnd ==
  \A s \in 1..Len(gate.streams) :
    (/\ s = gate.rotatingStream
     /\ ~gate.streams[s].closedByGate
     /\ gate'.streams[s].closedByGate) =>
       \/ gate.rotationTimer.due <= now /\ gate'.rotationTimer = NoTimer
       \/ ~gate.destroyed /\ gate'.destroyed
       \/ RotatedNow
C31_OverlapWindow ==
  [](OldStreamsInWindow) /\ [][RotationKeepsOld /\ OldClosedOnlyAtEnd]_vars

\* one rotation happened and its overlap timer has closed the old stream while
\* the new stream is still open
C31_Witness ==
  /\ gate.constructed /\ ~gate.destroyed
  /\ gate.rotations = 1
  /\ Len(gate.streams) = 2
  /\ gate.streams[1].closedByGate /\ gate.streams[1].emitted = "none"
  /\ gate.rotatingStream = NoStream
  /\ isOpen(gate, 2) /\ gate.currentStream = 2
  /\ now >= StartTime + gate.config.overlapMs

\* one page per accepted frame after the two header pages, numbered
\* consecutively, positions never decreasing
PagePerFrame ==
  /\ Len(mux.output) >= 2
  /\ mux.output[1].headerType = 2 /\ mux.output[1].data = OpusHead
  /\ mux.output[2].headerType = 0 /\ mux.output[2].granulePos = 0
  /\ Len(DataPages(mux.output)) = Len(muxed.frames)
  /\ \A i \in 1..Len(mux.output) : mux.output[i].pageSeqNo = i - 1
  /\ \A i \in 1..Len(muxed.frames) :
        /\ mux.output[i + 2].data = muxed.frames[i]
        /\ mux.output[i + 2].granulePos = i * samplesPerFrame
  /\ \A i, j \in 1..Len(mux.output) :
        i < j => mux.output[i].granulePos <= mux.output[j].granulePos

\* C32: after k accepted frames the sink holds the two header pages and then
\* one page per frame, with consecutive page sequence numbers and a position
\* that never decreases, and the data pages up to any page boundary
\* demultiplex to a prefix of the frames that were written.
C32_PagePerPacket ==
  muxed.attempted =>
    /\ PagePerFrame
    /\ \A n \in 0..Len(muxed.frames) :
          LET got == Demux(SubSeq(DataPages(mux.output), 1, n))
          IN /\ Len(got) <= Len(muxed.frames)
             /\ got = SubSeq(muxed.frames, 1, Len(got))

\* C33: a resampler whose process has neither been killed nor exited has its
\* idle watchdog armed, never more than the idle period ahead; a write that
\* passes the guards of writeOpusData moves the watchdog a full idle period
\* past the write and a write that is dropped leaves it where it was; when
\* the period ends the watchdog kills the process; once kill() has signalled
\* the process, or the process has exited, no watchdog is armed and a
\* watchdog that runs sends no signal.
Unkilled(r) == r.constructed /\ ~r.exited /\ r.signals = <<>>
C33_IdleWatchdog ==
  /\ Unkilled(ffmpeg) =>
        /\ ffmpeg.watchdogTimer # NullTime
        /\ now <= ffmpeg.watchdogTimer
        /\ ffmpeg.watchdogTimer <= now + IDLE_WATCHDOG_MS
  /\ ffmpeg.constructed =>
        \A chunk \in Chunks :
          writeOpusData(ffmpeg, chunk, now, FALSE).watchdogTimer =
            IF WriteAccepted(ffmpeg) THEN now + IDLE_WATCHDOG_MS
            ELSE ffmpeg.watchdogTimer
  /\ (Unkilled(ffmpeg) /\ ffmpeg.watchdogTimer = now) =>
        LET killed == watchdogFired(ffmpeg, now) IN
        /\ ~killed.alive
        /\ killed.watchdogTimer = NullTime
        /\ killed.signals = <<[signal |-> "SIGTERM", at |-> now, exited |-> FALSE]>>
  /\ (ffmpeg.constructed /\ ~Unkilled(ffmpeg)) =>
        /\ ffmpeg.watchdogTimer = NullTime
        /\ watchdogFired(ffmpeg, now).signals = ffmpeg.signals

\* C34: when the speaker has joined, spoken, paused, spoken again and left,
\* one track and two bursts are recorded for the speaker, all closed, the
\* first burst ending at or before the start of the second; between the end
\* of the first speech and the start of the second exactly one STT stream was
\* closed when the pause was longer than the silence timeout, and none when
\* it was shorter.
ClosedInPause == scenario.closedAtResume - scenario.closedAtPause
SpeakerTracks ==
  {t \in TrackIds : recorder.audioTracks[t].userId = Speaker}
C34_Scenario ==
  /\ scenario.pc \in {"speakingAgain", "spoken", "left"} =>
        /\ scenario.pauseMs > SessionSttConfig.silenceMs => ClosedInPause = 1
        /\ scenario.pauseMs < SessionSttConfig.silenceMs => ClosedInPause = 0
  /\ scenario.pc = "left" =>
        /\ Cardinality(SpeakerTracks) = 1
        /\ \A t \in SpeakerTracks : recorder.audioTracks[t].ended_at = 1
        /\ Len(tracker.burstRows) = 2
        /\ \A b \in 1..Len(tracker.burstRows) :
              /\ tracker.burstRows[b].burst_end
              /\ tracker.burstRows[b].trackId \in SpeakerTracks
              /\ tracker.burstRows[b].startFrameOffset <= tracker.burstRows[b].endFrameOffset
        /\ tracker.burstRows[1].endFrameOffset <= tracker.burstRows[2].startFrameOffset
        /\ tracker.bursts[Speaker] = NoState

\* C35: in the hydrated output every silence gap is at most 300 s of audio
\* unless the clamp is off, and then it is the whole gap from the write
\* position to the burst's aligned target; a burst whose target is at or
\* behind the write position gets no silence; every write starts where the
\* one before it ended, so nothing written is overwritten and the output
\* position never decreases.
HydratedWrites == 1..Len(hydration.output.writes)
TargetOf(id) ==
  LET burst == CHOOSE b \in {hydration.output.bursts[i] : i \in 1..Len(hydration.output.bursts)} :
                 b.id = id
  IN alignedTarget(burst.burst_start - FirstPacketAt)
SilenceGapBounded ==
  \A w \in HydratedWrites :
    LET write == hydration.output.writes[w] IN
    write.kind = "silence" =>
      /\ write.bytes > 0
      /\ write.at < TargetOf(write.burst)
      /\ hydration.output.noClamp => write.at + write.bytes = TargetOf(write.burst)
      /\ ~hydration.output.noClamp =>
            /\ write.bytes <= MAX_SILENCE_BYTES
            /\ write.bytes = Min(TargetOf(write.burst) - write.at, MAX_SILENCE_BYTES)
NoSilenceBehindPosition ==
  \A w \in HydratedWrites :
    LET write == hydration.output.writes[w] IN
    (write.kind = "audio" /\ TargetOf(write.burst) <= write.at
       /\ (w > 1 => hydration.output.writes[w - 1].burst # write.burst
                    \/ hydration.output.writes[w - 1].kind # "silence"))
      => WritesOf(hydration.output.bursts[write.burst], "silence") = {}
WritesAppend ==
  /\ \A w \in HydratedWrites :
        /\ hydration.output.writes[w].bytes > 0
        /\ hydration.output.writes[w].at =
             (IF w = 1 THEN 0
              ELSE hydration.output.writes[w - 1].at + hydration.output.writes[w - 1].bytes)
  /\ hydration.output.currentOutputBytes =
       (IF hydration.output.writes = <<>> THEN 0
        ELSE LET last == hydration.output.writes[Len(hydration.output.writes)]
             IN last.at + last.bytes)
C35_SilenceClamp ==
  hydration.output.done =>
    /\ SilenceGapBounded
    /\ NoSilenceBehindPosition
    /\ WritesAppend

\* a clamped run where the first burst starts before the track's first packet
\* (its target is behind position 0: audio and no silence) and the second
\* is more than 300 s later: exactly the cap of silence is written before it
C35_Witness ==
  /\ hydration.output.done
  /\ ~hydration.output.noClamp
  /\ Len(hydration.output.writes) = 3
  /\ hydration.output.writes[1].kind = "audio"
  /\ TargetOf(1) < 0
  /\ hydration.output.writes[2].kind = "silence"
  /\ hydration.output.writes[2].bytes = MAX_SILENCE_BYTES
  /\ TargetOf(2) - hydration.output.writes[2].at > MAX_SILENCE_BYTES

\* C36: in every guild at most one startSession call is past the guards
\* (being started or active), there is at most one active session row, one
\* voice connection and one recorder, and a rejected call made none of them.
Admitted(g) ==
  {c \in StartCalls : /\ starts.calls[c].guild = g
                      /\ starts.calls[c].pc \in {"deferring", "entering", "wiring", "started"}}
ActiveRows(g) ==
  {i \in 1..Len(starts.sessions) :
     starts.sessions[i].guild = g /\ starts.sessions[i].status = "active"}
OfGuild(ids, g) == {c \in ids : starts.calls[c].guild = g}
C36_OneStartPerGuild ==
  /\ \A g \in Guilds :
        /\ Cardinality(Admitted(g)) <= 1
        /\ Cardinality(ActiveRows(g)) <= 1
        /\ Cardinality(OfGuild(starts.connections, g)) <= 1
        /\ Cardinality(OfGuild(starts.recorders, g)) <= 1
  /\ \A c \in StartCalls :
        starts.calls[c].pc = "rejected" =>
          /\ c \notin starts.connections \cup starts.recorders
          /\ \A i \in 1..Len(starts.sessions) : starts.sessions[i].id # c

\* C37: however the teardown calls on a session interleave, the session's
\* engine is released exactly once: never twice, and an engine's reference
\* count is never below the number of sessions that acquired it and have not
\* released it, so an engine in use is never destroyed.
Holding(key) ==
  {s \in StartedSessions :
     /\ stops.sessions[s].engineAcquired
     /\ stops.sessions[s].released = 0
     /\ engineKey(ConfiguredEngine, stops.sessions[s].diarized) = key}
C37_ReleasedOnce ==
  /\ \A s \in StartedSessions : stops.sessions[s].released <= 1
  /\ \A key \in EngineKeys :
        Holding(key) # {} =>
          /\ stops.engines.map[key] # NoEngine
          /\ stops.engines.created[stops.engines.map[key]].refCount
               >= Cardinality(Holding(key))

\* C38: every early exit recorded for a key (its pcmOutput closed within 2 s
\* of the spawn, with the listener still attached, so not after an intentional
\* kill) is in the failure list the registry holds for the key for as long
\* as it is younger than 60 s.
CountedFailures(key) ==
  IF registry.spawnFailures[key] = NoArray THEN <<>>
  ELSE registry.arrays[registry.spawnFailures[key]]
C38_EarlyExitsCounted ==
  \A key \in Keys :
    RecentRecorded(key, now) <= Len(filterWindow(CountedFailures(key), now))

\* C40: the speechDuration values a gate has emitted, together with the time
\* it is still accruing, add up to the time its user has been speaking
\* between each speaking start and the matching speaking end or destroy.
Accruing == IF gate.speechStartTime # NullTime THEN now - gate.speechStartTime ELSE 0
SpeakingNow == IF usage.since # NullTime THEN now - usage.since ELSE 0
C40_SpeechAccounted ==
  usage.emittedMs + Accruing = usage.spokenMs + SpeakingNow

\* the same without a repeated speaking start
SpeechAccountedUnrepeated == ~usage.repeated => C40_SpeechAccounted

====
